---- MODULE Spec2Model ----
(***************************************************************************)
(* Model of the hhml ingestion code: file registration (db/files.py,       *)
(* ingest/pp_xml.py), the past-performance and chart extractors, their     *)
(* staging upserts, and the batch driver etl/parse_equibase_xml.py.        *)
(*                                                                         *)
(* Conventions.  A Python value that may be None is carried as a tuple of  *)
(* length 0 (None) or 1 (the value).  A text is a tuple of one-character   *)
(* strings.  An XML element is a record [tag, text, attrib, kids].         *)
(***************************************************************************)
EXTENDS Integers, Sequences, FiniteSets, TLC

None == <<>>
Some(v) == <<v>>
Val(o) == o[1]

\* F applied to e: a local name for a value that is used more than once.
With(e, F(_)) == F(e)

\* Python's `a or b` on optional texts: a when it is neither None nor "".
OrElse(a, b) == IF a # None /\ Val(a) # <<>> THEN a ELSE b

SeqMin(S) == CHOOSE x \in S : \A y \in S : x <= y

RECURSIVE Flatten(_)
Flatten(ss) == IF ss = <<>> THEN <<>> ELSE Head(ss) \o Flatten(Tail(ss))

(***************************************************************************)
(* Text: str.strip, int(), float()                                         *)
(***************************************************************************)
DigitChars == <<"0", "1", "2", "3", "4", "5", "6", "7", "8", "9">>
IsDigit(c) == \E i \in 1..10 : DigitChars[i] = c
DigitVal(c) == (CHOOSE i \in 1..10 : DigitChars[i] = c) - 1
IsSpace(c) == c = " "

RECURSIVE lstrip(_)
lstrip(s) == IF s # <<>> /\ IsSpace(Head(s)) THEN lstrip(Tail(s)) ELSE s

RECURSIVE rstrip(_)
rstrip(s) ==
  IF s # <<>> /\ IsSpace(s[Len(s)]) THEN rstrip(SubSeq(s, 1, Len(s) - 1)) ELSE s

strip(s) == rstrip(lstrip(s))

AllDigits(s) == s # <<>> /\ \A i \in 1..Len(s) : IsDigit(s[i])

RECURSIVE DigitsValue(_)
DigitsValue(s) ==
  IF s = <<>> THEN 0 ELSE 10 * DigitsValue(SubSeq(s, 1, Len(s) - 1)) + DigitVal(s[Len(s)])

\* int(s): surrounding blanks, an optional sign, decimal digits.  None stands
\* for the ValueError.
Signed(t) == t # <<>> /\ Head(t) \in {"-", "+"}
Negative(t) == t # <<>> /\ Head(t) = "-"
Unsigned(t) == IF Signed(t) THEN Tail(t) ELSE t

py_int(s) ==
  With(strip(s), LAMBDA t :
    IF AllDigits(Unsigned(t))
    THEN Some(IF Negative(t) THEN 0 - DigitsValue(Unsigned(t)) ELSE DigitsValue(Unsigned(t)))
    ELSE None)

\* float(s) for plain decimal literals: digits with at most one point.  The
\* value is carried exactly, as hundredths (the texts of the model hold at
\* most two fractional digits); None stands for the ValueError.
Dots(u) == {i \in 1..Len(u) : u[i] = "."}
IntPart(u) == IF Dots(u) = {} THEN u ELSE SubSeq(u, 1, SeqMin(Dots(u)) - 1)
FracPart(u) == IF Dots(u) = {} THEN <<>> ELSE SubSeq(u, SeqMin(Dots(u)) + 1, Len(u))
Hundredths(fp) ==
  IF Len(fp) = 0 THEN 0
  ELSE IF Len(fp) = 1 THEN 10 * DigitVal(fp[1])
  ELSE 10 * DigitVal(fp[1]) + DigitVal(fp[2])

\* The magnitude of the literal ip.fp, None when it is not one.
Magnitude(dots, ip, fp) ==
  IF /\ Cardinality(dots) <= 1
     /\ ip \o fp # <<>>
     /\ \A i \in 1..Len(ip) : IsDigit(ip[i])
     /\ \A i \in 1..Len(fp) : IsDigit(fp[i])
     /\ Len(fp) <= 2
  THEN Some(100 * DigitsValue(ip) + Hundredths(fp))
  ELSE None

py_float(s) ==
  With(strip(s), LAMBDA t :
    With(Magnitude(Dots(Unsigned(t)), IntPart(Unsigned(t)), FracPart(Unsigned(t))), LAMBDA mag :
      IF mag = None THEN None
      ELSE Some(IF Negative(t) THEN 0 - Val(mag) ELSE Val(mag))))

\* int(x) of a float carried as hundredths: truncation toward zero.
py_int_of_float(h) == IF h >= 0 THEN h \div 100 ELSE 0 - ((0 - h) \div 100)

\* hhml.utils.safe_int: int(str(v).strip()), None on any failure.
safe_int(v) ==
  IF v = None THEN None
  ELSE IF strip(Val(v)) = <<>> THEN None
  ELSE py_int(strip(Val(v)))

\* hhml.utils.safe_float
safe_float(v) ==
  IF v = None THEN None
  ELSE IF strip(Val(v)) = <<>> THEN None
  ELSE py_float(strip(Val(v)))

\* pp_xml.safe_int: int(float(str(x).strip())), None on any failure.
pp_safe_int(x) ==
  IF x = None THEN None
  ELSE IF strip(Val(x)) = <<>> THEN None
  ELSE With(py_float(strip(Val(x))), LAMBDA f :
         IF f = None THEN None ELSE Some(py_int_of_float(Val(f))))

\* pp_xml.safe_float
pp_safe_float(x) ==
  IF x = None THEN None
  ELSE IF strip(Val(x)) = <<>> THEN None
  ELSE py_float(strip(Val(x)))

\* re.match(r"^\s*(\d{1,2})([A-C]?)\s*$", prog), then m.group(0).strip();
\* None when there is no match.
LeadingDigits2(t) ==
  IF Len(t) >= 2 /\ IsDigit(t[1]) /\ IsDigit(t[2]) THEN 2
  ELSE IF Len(t) >= 1 /\ IsDigit(t[1]) THEN 1 ELSE 0

ProgramMatch(prog) ==
  With(strip(prog), LAMBDA t :
    With(SubSeq(t, LeadingDigits2(t) + 1, Len(t)), LAMBDA rest :
      IF /\ LeadingDigits2(t) >= 1
         /\ (rest = <<>> \/ (Len(rest) = 1 /\ rest[1] \in {"A", "B", "C"}))
      THEN Some(t) ELSE None))

(***************************************************************************)
(* XML elements                                                            *)
(***************************************************************************)
NoAttrib == <<>>
Elem(tag, text, attrib, kids) ==
  [tag |-> tag, text |-> text, attrib |-> attrib, kids |-> kids]
Leaf(tag, text) == Elem(tag, text, NoAttrib, <<>>)

\* Element.get(name)
GetAttr(node, name) ==
  IF name \in DOMAIN node.attrib THEN Some(node.attrib[name]) ELSE None

\* The paths (child indices from `node` down) of node's descendants, in
\* document order; node itself is not among them.
RECURSIVE DescPaths(_)
DescPaths(node) ==
  Flatten([i \in 1..Len(node.kids) |->
             <<<<i>>>> \o [j \in 1..Len(DescPaths(node.kids[i])) |->
                             <<i>> \o DescPaths(node.kids[i])[j]]])

RECURSIVE At(_, _)
At(node, path) == IF path = <<>> THEN node ELSE At(node.kids[Head(path)], Tail(path))

\* Descendant paths whose element has tag `nm`, in document order.
DescWithTag(node, nm) ==
  SelectSeq(DescPaths(node), LAMBDA p : At(node, p).tag = nm)

\* Element.findtext(tag) for a direct child: the first such child's text
\* ("" when it has none), None when there is no such child.
findtext(node, tag) ==
  LET hit == {i \in 1..Len(node.kids) : node.kids[i].tag = tag}
  IN IF hit = {} THEN None ELSE Some(node.kids[SeqMin(hit)].text)

\* Element.findtext(".//tag")
findtext_desc(node, tag) ==
  LET ps == DescWithTag(node, tag)
  IN IF ps = <<>> THEN None ELSE Some(At(node, ps[1]).text)

\* Element.findtext(".//outer/inner")
findtext_desc2(node, outer, inner) ==
  LET ps == SelectSeq(DescPaths(node),
                      LAMBDA p : /\ At(node, p).tag = inner
                                 /\ Len(p) >= 2
                                 /\ At(node, SubSeq(p, 1, Len(p) - 1)).tag = outer)
  IN IF ps = <<>> THEN None ELSE Some(At(node, ps[1]).text)

(***************************************************************************)
(* str.upper and substring containment                                     *)
(***************************************************************************)
LowerChars == <<"a", "b", "c", "d", "e", "f", "g", "h", "i", "j", "k", "l", "m",
                "n", "o", "p", "q", "r", "s", "t", "u", "v", "w", "x", "y", "z">>
UpperChars == <<"A", "B", "C", "D", "E", "F", "G", "H", "I", "J", "K", "L", "M",
                "N", "O", "P", "Q", "R", "S", "T", "U", "V", "W", "X", "Y", "Z">>
IsUpper(c) == \E i \in 1..26 : UpperChars[i] = c
UpperChar(c) ==
  IF \E i \in 1..26 : LowerChars[i] = c
  THEN UpperChars[CHOOSE i \in 1..26 : LowerChars[i] = c]
  ELSE c
upper(s) == [i \in 1..Len(s) |-> UpperChar(s[i])]

\* Python's `pat in s`
Contains(s, pat) ==
  \E i \in 1..(Len(s) - Len(pat) + 1) : SubSeq(s, i, i + Len(pat) - 1) = pat

(***************************************************************************)
(* Row fingerprint                                                         *)
(***************************************************************************)
\* Every column name of the staging tables, in the order sorted() gives.
SortedNames ==
  <<"age_restriction", "bullet_flag", "class_rating", "course", "course_type",
    "dam", "distance_furlongs", "distance_yards", "equip_blinkers", "final_odds",
    "finish_position", "horse_name", "jockey_name", "last_comment", "med_lasix",
    "ml_odds", "pace_fig1", "pace_fig2", "pace_fig3", "place_payoff",
    "program_number", "program_selections", "purse", "race_date", "race_number",
    "rank_in_set", "row_fingerprint", "set_size", "sex_restriction",
    "show_payoff", "sire", "source_file_id", "speed_fig_last", "surface",
    "time_raw", "track_code", "track_condition", "trainer_name", "wager_text",
    "win_payoff", "work_date">>

\* json.dumps(row, sort_keys=True, separators=(",", ":")): the key/value
\* pairs in sorted key order.
CanonicalJson(row) ==
  LET ks == SelectSeq(SortedNames, LAMBDA k : k \in DOMAIN row)
  IN [i \in 1..Len(ks) |-> <<ks[i], row[ks[i]]>>]

\* pp_xml.fingerprint: the md5 digest of the canonical serialization.  The
\* digest is taken to be collision free: it is carried as its preimage.
pp_fingerprint(row) == <<"md5", CanonicalJson(row)>>

\* hhml.utils.fingerprint: the sha1 digest of the canonical serialization.
fingerprint(value) == <<"sha1", CanonicalJson(value)>>

\* rr["row_fingerprint"] = fingerprint(rr)
WithField(row, name, v) == [k \in DOMAIN row \cup {name} |-> IF k = name THEN v ELSE row[k]]

(***************************************************************************)
(* pp_xml._emit_rows_pp                                                    *)
(***************************************************************************)
\* The local helpers first_text / rt / wt: the first alias whose child text
\* is neither missing nor blank, stripped.
RECURSIVE pp_first_text(_, _)
pp_first_text(node, paths) ==
  IF paths = <<>> THEN None
  ELSE LET v == findtext(node, Head(paths))
       IN IF v # None /\ strip(Val(v)) # <<>> THEN Some(strip(Val(v)))
          ELSE pp_first_text(node, Tail(paths))

\* et's second loop: the first alias that names a non-blank attribute.
RECURSIVE pp_attr_text(_, _)
pp_attr_text(node, paths) ==
  IF paths = <<>> THEN None
  ELSE IF Head(paths) \in DOMAIN node.attrib /\ strip(node.attrib[Head(paths)]) # <<>>
       THEN Some(strip(node.attrib[Head(paths)]))
       ELSE pp_attr_text(node, Tail(paths))

\* et: child text first, then attributes.
et(node, paths) ==
  IF pp_first_text(node, paths) # None THEN pp_first_text(node, paths)
  ELSE pp_attr_text(node, paths)

\* root.findall(".//A") + root.findall(".//B") + ...: paths, tag by tag.
RECURSIVE FindAllTags(_, _)
FindAllTags(node, tags) ==
  IF tags = <<>> THEN <<>>
  ELSE DescWithTag(node, Head(tags)) \o FindAllTags(node, Tail(tags))

\* track = (first_text(root, ".//Track/Code", ".//TRACK/CODE")
\*          or default_track or "UNK").strip()
pp_track(root, default_track) ==
  LET a == findtext_desc2(root, "Track", "Code")
      b == findtext_desc2(root, "TRACK", "CODE")
      ft == IF a # None /\ strip(Val(a)) # <<>> THEN Some(strip(Val(a)))
            ELSE IF b # None /\ strip(Val(b)) # <<>> THEN Some(strip(Val(b)))
            ELSE None
  IN strip(Val(OrElse(ft, OrElse(default_track, Some(<<"U", "N", "K">>)))))

\* rdate = (default_date or first_text(root, ".//RaceDate", ".//RACE_DATE")
\*          or "").strip()
pp_rdate(root, default_date) ==
  LET a == findtext_desc(root, "RaceDate")
      b == findtext_desc(root, "RACE_DATE")
      ft == IF a # None /\ strip(Val(a)) # <<>> THEN Some(strip(Val(a)))
            ELSE IF b # None /\ strip(Val(b)) # <<>> THEN Some(strip(Val(b)))
            ELSE None
  IN strip(Val(OrElse(default_date, OrElse(ft, Some(<<>>)))))

\* rnum_txt = rt(race, ...) or race.get("Number") or race.get("NUMBER")
\*            or race.get("num")
pp_rnum_txt(race) ==
  LET a == pp_first_text(race, <<"Number", "NUMBER", "RaceNumber", "RACE_NUMBER">>)
      b == GetAttr(race, "Number")
      c == GetAttr(race, "NUMBER")
      d == GetAttr(race, "num")
  IN IF a # None /\ Val(a) # <<>> THEN a
     ELSE IF b # None /\ Val(b) # <<>> THEN b
     ELSE IF c # None /\ Val(c) # <<>> THEN c
     ELSE d

\* rrow["row_fingerprint"] = fingerprint(rrow)
pp_stamped(row) == WithField(row, "row_fingerprint", Some(pp_fingerprint(row)))

pp_race_row(race, track, rdate) ==
  pp_stamped(
        [track_code |-> Some(track),
         race_date |-> Some(rdate),
         race_number |-> pp_safe_int(pp_rnum_txt(race)),
         surface |-> pp_first_text(race, <<"Surface", "SURFACE">>),
         distance_yards |->
           pp_safe_int(pp_first_text(race, <<"DistanceYards", "DISTANCE_YARDS", "DistanceYd">>)),
         course |-> None,
         track_condition |->
           pp_first_text(race, <<"TrackCondition", "TRACK_CONDITION", "Condition">>),
         age_restriction |-> pp_first_text(race, <<"AgeRestriction", "AGE_RESTRICTION">>),
         sex_restriction |-> pp_first_text(race, <<"SexRestriction", "SEX_RESTRICTION">>),
         purse |-> pp_safe_int(pp_first_text(race, <<"Purse", "PURSE">>)),
         wager_text |-> pp_first_text(race, <<"WagerText", "WAGER_TEXT">>),
         program_selections |->
           pp_first_text(race, <<"ProgramSelections", "PROGRAM_SELECTIONS">>)])

\* The attribute fallback of the program number: the first of program,
\* PROGRAM, pp, PP, post, POST that is present and not blank.
RECURSIVE pp_prog_attr(_, _)
pp_prog_attr(e, attrs) ==
  IF attrs = <<>> THEN None
  ELSE LET v == GetAttr(e, Head(attrs))
       IN IF v # None /\ Val(v) # <<>> /\ strip(Val(v)) # <<>> THEN Some(strip(Val(v)))
          ELSE pp_prog_attr(e, Tail(attrs))

pp_program_number(e) ==
  With(OrElse(pp_first_text(e, <<"Program", "PROGRAM", "Prog", "PROG", "Saddle", "SADDLE",
                                 "PP", "POST_POSITION", "PostPosition", "POST",
                                 "ENTRY_NUMBER">>),
              pp_prog_attr(e, <<"program", "PROGRAM", "pp", "PP", "post", "POST">>)),
       LAMBDA prog :
         IF prog # None /\ Val(prog) # <<>> THEN ProgramMatch(Val(prog)) ELSE None)

\* med = (et(e, ...) or "").upper(); ("LASIX" in med) if med else None
pp_flag(txt, pat) ==
  With(upper(Val(OrElse(txt, Some(<<>>)))), LAMBDA med :
    IF med # <<>> THEN Some(Contains(med, pat)) ELSE None)

pp_entry_row(e, track, rdate, rnum) ==
  pp_stamped(
        [track_code |-> Some(track),
         race_date |-> Some(rdate),
         race_number |-> rnum,
         program_number |-> pp_program_number(e),
         horse_name |-> et(e, <<"HorseName", "HORSE_NAME", "Name", "NAME">>),
         sire |-> et(e, <<"Sire", "SIRE">>),
         dam |-> et(e, <<"Dam", "DAM">>),
         trainer_name |-> et(e, <<"TrainerName", "TRAINER_NAME", "Trainer", "TRAINER">>),
         jockey_name |-> et(e, <<"JockeyName", "JOCKEY_NAME", "Jockey", "JOCKEY">>),
         med_lasix |->
           pp_flag(et(e, <<"Medication", "MEDICATION">>), <<"L", "A", "S", "I", "X">>),
         equip_blinkers |->
           pp_flag(et(e, <<"Equipment", "EQUIPMENT">>), <<"B", "L", "I", "N", "K">>),
         ml_odds |-> et(e, <<"MorningLine", "MORNING_LINE", "ML">>),
         speed_fig_last |->
           pp_safe_int(et(e, <<"SpeedFigure", "SPEED_FIGURE", "Speed", "SPEED">>)),
         pace_fig1 |-> pp_safe_int(et(e, <<"PaceFigure1", "PACE_FIGURE1", "Pace1", "PACE1">>)),
         pace_fig2 |-> pp_safe_int(et(e, <<"PaceFigure2", "PACE_FIGURE2", "Pace2", "PACE2">>)),
         pace_fig3 |-> pp_safe_int(et(e, <<"PaceFigure3", "PACE_FIGURE3", "Pace3", "PACE3">>)),
         class_rating |->
           pp_safe_int(et(e, <<"ClassRating", "CLASS_RATING", "Class", "CLASS">>)),
         last_comment |-> et(e, <<"ShortComment", "LONG_COMMENT", "Comment", "COMMENT">>)])

pp_workout_row(w, track) ==
  pp_stamped(
        [horse_name |-> pp_first_text(w, <<"HorseName", "HORSE_NAME">>),
         work_date |-> pp_first_text(w, <<"Date", "DATE">>),
         track_code |-> OrElse(pp_first_text(w, <<"Track", "TRACK">>), Some(track)),
         distance_furlongs |->
           pp_safe_float(pp_first_text(w, <<"DistanceFurlongs", "DIST_FURLONGS">>)),
         surface |-> pp_first_text(w, <<"Surface", "SURFACE">>),
         course_type |-> pp_first_text(w, <<"CourseType", "COURSE_TYPE">>),
         rank_in_set |-> pp_safe_int(pp_first_text(w, <<"Rank", "RANK">>)),
         set_size |-> pp_safe_int(pp_first_text(w, <<"SetSize", "SET_SIZE">>)),
         time_raw |-> pp_first_text(w, <<"Time", "TIME">>),
         bullet_flag |->
           Some(upper(Val(OrElse(pp_first_text(w, <<"Bullet", "BULLET">>), Some(<<>>))))
                  \in {<<"Y">>, <<"T", "R", "U", "E">>, <<"1">>})])

\* The loop over the race elements without its `continue`.
pp_race_paths_unfiltered(root) == FindAllTags(root, <<"Race", "RACE">>)

\* The race elements the loop visits and does not skip: paths, in loop order.
pp_race_paths(root) ==
  SelectSeq(FindAllTags(root, <<"Race", "RACE">>),
            LAMBDA p : pp_safe_int(pp_rnum_txt(At(root, p))) # None)

pp_entry_tags == <<"Starter", "STARTER", "Entry", "ENTRY", "Horse", "HORSE", "Runner", "RUNNER">>

\* The rows of one race's entry elements, in loop order.
pp_entries_of(race, eps, track, rdate) ==
  [j \in 1..Len(eps) |->
     pp_entry_row(At(race, eps[j]), track, rdate, pp_safe_int(pp_rnum_txt(race)))]

\* The workout elements the loop visits and does not skip.
pp_workout_paths(root) ==
  SelectSeq(FindAllTags(root, <<"Workout", "WORKOUT">>),
            LAMBDA p : OrElse(pp_first_text(At(root, p), <<"HorseName", "HORSE_NAME">>), None)
                         # None)

pp_rows(root, track, rdate, rps, wps) ==
  [race |-> [i \in 1..Len(rps) |-> pp_race_row(At(root, rps[i]), track, rdate)],
   entry |-> Flatten([i \in 1..Len(rps) |->
                        pp_entries_of(At(root, rps[i]),
                                      FindAllTags(At(root, rps[i]), pp_entry_tags),
                                      track, rdate)]),
   workout |-> [i \in 1..Len(wps) |-> pp_workout_row(At(root, wps[i]), track)]]

_emit_rows_pp(root, default_track, default_date) ==
  pp_rows(root, pp_track(root, default_track), pp_rdate(root, default_date),
          pp_race_paths(root), pp_workout_paths(root))

(***************************************************************************)
(* chart_xml: helpers                                                      *)
(***************************************************************************)
LowerChar(c) ==
  IF \E i \in 1..26 : UpperChars[i] = c
  THEN LowerChars[CHOOSE i \in 1..26 : UpperChars[i] = c]
  ELSE c
lower(s) == [i \in 1..Len(s) |-> LowerChar(s[i])]

StartsWith(s, pre) == Len(s) >= Len(pre) /\ SubSeq(s, 1, Len(pre)) = pre

\* chart_xml.first_text: for each name, the text nodes of the direct children
\* with that local name; the first one, stripped, when it is not blank.
RECURSIVE first_text(_, _)
first_text(node, names) ==
  IF names = <<>> THEN None
  ELSE LET hits == SelectSeq(node.kids,
                             LAMBDA k : k.tag = Head(names) /\ k.text # <<>>)
       IN IF hits # <<>> /\ strip(hits[1].text) # <<>> THEN Some(strip(hits[1].text))
          ELSE first_text(node, Tail(names))

\* chart_xml.findall: descendants with each local name, name by name.
findall(node, names) == FindAllTags(node, names)

\* str(n) for n >= 0
RECURSIVE IntToText(_)
IntToText(n) ==
  IF n < 10 THEN <<DigitChars[n + 1]>> ELSE IntToText(n \div 10) \o <<DigitChars[(n % 10) + 1]>>

\* round(p / q) of a non-negative fraction, halves to even as round() does.
RoundFraction(p, q) ==
  LET f == p \div q
      r == p % q
  IN IF 2 * r < q THEN f
     ELSE IF 2 * r > q THEN f + 1
     ELSE IF f % 2 = 0 THEN f ELSE f + 1

RECURSIVE Pow10(_)
Pow10(k) == IF k = 0 THEN 1 ELSE 10 * Pow10(k - 1)

\* The length of the run of digits that starts s.
RECURSIVE DigitRun(_)
DigitRun(s) == IF s # <<>> /\ IsDigit(Head(s)) THEN 1 + DigitRun(Tail(s)) ELSE 0

\* A match of (\d+(?:\.\d+)?) at the start of s: [ok, num, den, len], the
\* matched literal being num / den.
DecimalPrefix(s) ==
  With(DigitRun(s), LAMBDA n :
    With(IF Len(s) > n /\ s[n + 1] = "." THEN DigitRun(SubSeq(s, n + 2, Len(s))) ELSE 0,
         LAMBDA afterDot :
           IF n = 0 THEN [ok |-> FALSE, num |-> 0, den |-> 1, len |-> 0]
           ELSE [ok |-> TRUE,
                 num |-> DigitsValue(SubSeq(s, 1, n)) * Pow10(afterDot)
                           + DigitsValue(SubSeq(s, n + 2, n + 1 + afterDot)),
                 den |-> Pow10(afterDot),
                 len |-> IF afterDot = 0 THEN n ELSE n + 1 + afterDot]))

\* re.search(r"(\d+(?:\.\d+)?)", s): the match at the first digit of s.
DecimalSearch(s) ==
  LET at == {i \in 1..Len(s) : IsDigit(s[i])}
  IN IF at = {} THEN [ok |-> FALSE, num |-> 0, den |-> 1, len |-> 0]
     ELSE DecimalPrefix(SubSeq(s, SeqMin(at), Len(s)))

\* s.split("mile")[0]
BeforeMile(s) ==
  LET pat == <<"m", "i", "l", "e">>
      at == {i \in 1..(Len(s) - 3) : SubSeq(s, i, i + 3) = pat}
  IN IF at = {} THEN s ELSE SubSeq(s, 1, SeqMin(at) - 1)

\* re.match(r"^\s*(\d+)\s+(\d+)/(\d+)", parts): [ok, whole, num, den]
\* The run of digits that starts s, and what follows it.
DigitsOf(s) == SubSeq(s, 1, DigitRun(s))
AfterDigits(s) == SubSeq(s, DigitRun(s) + 1, Len(s))

\* a is the text from the whole number on, c the text from the numerator on
\* (b with its blanks removed), e the text after the "/".
MixedFractionOf(a, b, c, d, e) ==
  IF DigitRun(a) > 0 /\ Len(c) < Len(b) /\ DigitRun(c) > 0 /\ d # <<>> /\ Head(d) = "/"
     /\ DigitRun(e) > 0
  THEN [ok |-> TRUE, whole |-> DigitsValue(DigitsOf(a)), num |-> DigitsValue(DigitsOf(c)),
        den |-> DigitsValue(DigitsOf(e))]
  ELSE [ok |-> FALSE, whole |-> 0, num |-> 0, den |-> 1]

MixedFraction(parts) ==
  With(lstrip(parts), LAMBDA a :
    With(lstrip(AfterDigits(a)), LAMBDA c :
      With(AfterDigits(c), LAMBDA d :
        MixedFractionOf(a, AfterDigits(a), c, d, IF d # <<>> THEN Tail(d) ELSE <<>>))))

\* chart_xml.yards_from_furlongs_miles.  The result is None, Some(yards), or
\* the text "ZeroDivisionError" for a mixed fraction over 0.
ZeroDivisionError == <<"ZeroDivisionError", "raised">>
IsError(y) == Len(y) = 2
\* int(round(furlongs * 220)) for the match m
FurlongYards(m) == IF ~m.ok THEN None ELSE Some(RoundFraction(m.num * 220, m.den))

\* int(round(miles * 1760)) for the mixed-fraction match mx, else for the
\* simple match sm
MileYards(mx, sm) ==
  IF mx.ok
  THEN IF mx.den = 0 THEN ZeroDivisionError
       ELSE Some(RoundFraction((mx.whole * mx.den + mx.num) * 1760, mx.den))
  ELSE IF ~sm.ok THEN None
  ELSE Some(RoundFraction(sm.num * 1760, sm.den))

yards_from_furlongs_miles(dist_str) ==
  IF dist_str = None \/ Val(dist_str) = <<>> THEN None
  ELSE With(strip(lower(Val(dist_str))), LAMBDA s :
         IF Contains(s, <<"f", "u", "r", "l", "o", "n", "g">>)
         THEN FurlongYards(DecimalSearch(s))
         ELSE IF Contains(s, <<"m", "i", "l", "e">>)
         THEN With(strip(BeforeMile(s)), LAMBDA parts :
                MileYards(MixedFraction(parts), DecimalPrefix(lstrip(parts))))
         ELSE None)

\* chart_xml.surface_code
surface_code(val) ==
  IF val = None \/ Val(val) = <<>> THEN None
  ELSE LET v == upper(strip(Val(val)))
       IN IF StartsWith(v, <<"T", "U", "R", "F">>) THEN Some(<<"T">>)
          ELSE IF StartsWith(v, <<"D", "I", "R", "T">>) THEN Some(<<"D">>)
          ELSE IF StartsWith(v, <<"A", "L", "L", " ", "W", "E", "A", "T", "H", "E", "R">>)
                  \/ StartsWith(v, <<"S", "Y", "N">>) THEN Some(<<"A">>)
          ELSE IF v # <<>> THEN Some(<<v[1]>>) ELSE None

Furlongs == <<" ", "F", "u", "r", "l", "o", "n", "g", "s">>
Miles == <<" ", "M", "i", "l", "e", "s">>

\* The loop of text_or_attr_distance over the Distance elements below the
\* race: the string the first element that decides returns, None when no
\* element decides.
RECURSIVE DistanceByUnit(_, _, _)
\* unit = (el.get("unit") or el.get("UNIT") or "").strip()
UnitOf(el) == strip(Val(OrElse(GetAttr(el, "unit"), OrElse(GetAttr(el, "UNIT"), Some(<<>>)))))

\* The miles branch: "1 Mile" / "<n> Miles" for a whole number v = float(raw),
\* "<raw> Miles" otherwise.
MilesText(raw, v) ==
  IF v # None /\ Val(v) >= 0 /\ Val(v) % 100 = 0
  THEN IF Val(v) = 100 THEN Some(<<"1", " ", "M", "i", "l", "e">>)
       ELSE Some(IntToText(Val(v) \div 100) \o Miles)
  ELSE Some(raw \o Miles)

\* What one Distance element decides: a string, or None to go on.
DistanceOfElement(el, raw, unit) ==
  IF strip(el.text) = strip(raw) /\ unit # <<>> /\ StartsWith(lower(unit), <<"f", "u", "r">>)
  THEN Some(raw \o Furlongs)
  ELSE IF strip(el.text) = strip(raw) /\ unit # <<>>
          /\ StartsWith(lower(unit), <<"m", "i", "l">>)
  THEN MilesText(raw, py_float(raw))
  ELSE None

DistanceByUnit(race, raw, paths) ==
  IF paths = <<>> THEN None
  ELSE With(DistanceOfElement(At(race, Head(paths)), raw, UnitOf(At(race, Head(paths)))),
            LAMBDA hit : IF hit # None THEN hit ELSE DistanceByUnit(race, raw, Tail(paths)))

\* chart_xml.text_or_attr_distance
\* The part of text_or_attr_distance after `if raw:`.
DistanceFromRaw(race, raw) ==
  IF Contains(lower(raw), <<"f", "u", "r", "l", "o", "n", "g">>)
     \/ Contains(lower(raw), <<"m", "i", "l", "e">>)
  THEN Some(raw)
  ELSE With(DistanceByUnit(race, raw, DescWithTag(race, "Distance")), LAMBDA byUnit :
         IF byUnit # None THEN byUnit ELSE Some(raw \o Furlongs))

text_or_attr_distance(race) ==
  With(first_text(race, <<"DistanceDescription", "DISTANCE_DESCRIPTION",
                          "DistanceDesc", "DIST_DESC">>), LAMBDA desc :
    IF desc # None /\ Val(desc) # <<>> THEN desc
    ELSE With(first_text(race, <<"Distance", "DISTANCE">>), LAMBDA raw :
           IF raw # None /\ Val(raw) # <<>> THEN DistanceFromRaw(race, Val(raw)) ELSE None))

(***************************************************************************)
(* chart_xml.emit_rows_chart                                               *)
(***************************************************************************)
chart_rnum_names ==
  <<"RaceNumber", "RACE_NUMBER", "RaceNum", "RACE_NUM", "Number", "NUMBER", "RaceNo", "RACE_NO">>

\* rnum = safe_int(first_text(race, ...)); if rnum is None: rnum = idx
chart_rnum(race, idx) ==
  LET rnum == safe_int(first_text(race, chart_rnum_names))
  IN IF rnum = None THEN idx ELSE Val(rnum)

\* dist_yards after the over-scale fix.  A number is [float, h]: h is the
\* value in hundredths, float tells an int from the float that / makes.
chart_dist_yards(race) ==
  With(yards_from_furlongs_miles(text_or_attr_distance(race)), LAMBDA y :
    IF IsError(y) THEN y
    ELSE IF y = None THEN None
    ELSE IF Val(y) # 0 /\ Val(y) > 10000 THEN Some([float |-> TRUE, h |-> Val(y)])
    ELSE Some([float |-> FALSE, h |-> 100 * Val(y)]))

\* rr["row_fingerprint"] = fingerprint(rr)
chart_stamped(row) == WithField(row, "row_fingerprint", Some(fingerprint(row)))

chart_race_row(race, idx, tcode, rdate) ==
  chart_stamped(
    [track_code |-> tcode,
     race_date |-> rdate,
     race_number |-> Some(chart_rnum(race, idx)),
     surface |-> surface_code(first_text(race, <<"Surface", "SURFACE">>)),
     distance_yards |-> chart_dist_yards(race),
     track_condition |->
       OrElse(first_text(race, <<"TrackCondition", "TRACK_CONDITION">>),
              OrElse(first_text(race, <<"TrackConditionCode", "TRACK_CONDITION_CODE">>),
                     first_text(race, <<"TrackConditionDesc", "TRACK_CONDITION_DESC">>)))])

chart_prog_names1 ==
  <<"ProgramNumber", "PROGRAM_NUMBER", "Program", "PROGRAM", "PostPosition", "POST_POSITION", "PP">>
chart_prog_names2 ==
  <<"ProgramNumber", "PROGRAM_NUMBER", "Program", "PROGRAM", "PostPosition", "POST_POSITION">>

\* prog after the regular expression: None when the loop `continue`s.
chart_prog(s, names) ==
  LET prog == first_text(s, names)
  IN IF prog # None /\ Val(prog) # <<>> THEN ProgramMatch(strip(Val(prog))) ELSE None

OrZero(f) == IF f = None \/ Val(f) = 0 THEN Some(0) ELSE f
OrEmpty(t) == IF t = None \/ Val(t) = <<>> THEN Some(<<>>) ELSE t

\* The row of the first loop over starter nodes (lines 250-294).
chart_entry_row1(s, tcode, rdate, rnum) ==
  chart_stamped(
            [track_code |-> OrEmpty(tcode),
             race_date |-> OrEmpty(rdate),
             race_number |-> Some(rnum),
             program_number |-> chart_prog(s, chart_prog_names1),
             horse_name |->
               OrEmpty(first_text(s, <<"Horse", "HORSE", "HorseName", "HORSE_NAME", "Name", "NAME">>)),
             finish_position |->
               safe_int(first_text(s, <<"FinishPosition", "FINISH_POSITION", "Finish",
                                        "FINISH", "Pos", "POS">>)),
             final_odds |-> safe_float(first_text(s, <<"FinalOdds", "FINAL_ODDS", "Odds", "ODDS">>)),
             win_payoff |-> safe_float(first_text(s, <<"WinPayoff", "WIN_PAYOFF", "WIN">>)),
             place_payoff |-> safe_float(first_text(s, <<"PlacePayoff", "PLACE_PAYOFF", "PLACE">>)),
             show_payoff |-> safe_float(first_text(s, <<"ShowPayoff", "SHOW_PAYOFF", "SHOW">>))])

\* The row of the second loop over starter nodes (lines 302-345).
chart_entry_row2(s, tcode, rdate, rnum) ==
  chart_stamped(
            [track_code |-> OrEmpty(tcode),
             race_date |-> OrEmpty(rdate),
             race_number |-> Some(rnum),
             program_number |-> chart_prog(s, chart_prog_names2),
             horse_name |-> OrEmpty(first_text(s, <<"Horse", "HORSE", "HorseName", "HORSE_NAME">>)),
             finish_position |->
               safe_int(first_text(s, <<"FinishPosition", "FINISH_POSITION", "Finish", "FINISH">>)),
             final_odds |-> safe_float(first_text(s, <<"FinalOdds", "FINAL_ODDS", "Odds", "ODDS">>)),
             win_payoff |-> OrZero(safe_float(first_text(s, <<"WinPayoff", "WIN_PAYOFF", "WIN">>))),
             place_payoff |->
               OrZero(safe_float(first_text(s, <<"PlacePayoff", "PLACE_PAYOFF", "PLACE">>))),
             show_payoff |->
               OrZero(safe_float(first_text(s, <<"ShowPayoff", "SHOW_PAYOFF", "SHOW">>)))])

\* starter_nodes: for each parent found, the starters found below it, as
\* paths from the race.
Prefixed(pre, paths) == [j \in 1..Len(paths) |-> pre \o paths[j]]

StartersBelow(race, pps, starterNames) ==
  Flatten([i \in 1..Len(pps) |-> Prefixed(pps[i], findall(At(race, pps[i]), starterNames))])

StarterPaths(race, parentNames, starterNames) ==
  StartersBelow(race, findall(race, parentNames), starterNames)

\* The rows the two loops over starter nodes append for one race; a starter
\* whose program number does not resolve is passed over.
chart_rows1(race, n1, tcode, rdate, rnum) ==
  SelectSeq([j \in 1..Len(n1) |-> chart_entry_row1(At(race, n1[j]), tcode, rdate, rnum)],
            LAMBDA r : r.program_number # None)

chart_rows2(race, n2, tcode, rdate, rnum) ==
  SelectSeq([j \in 1..Len(n2) |-> chart_entry_row2(At(race, n2[j]), tcode, rdate, rnum)],
            LAMBDA r : r.program_number # None)

chart_entries_of(race, tcode, rdate, rnum) ==
  chart_rows1(race,
              StarterPaths(race,
                           <<"Starters", "STARTERS", "Entries", "ENTRIES", "Results", "RESULTS",
                             "HorseList", "HORSELIST">>,
                           <<"Starter", "STARTER", "Entry", "ENTRY", "Horse", "HORSE">>),
              tcode, rdate, rnum)
    \o chart_rows2(race, StarterPaths(race, <<"Starters", "STARTERS">>, <<"Starter", "STARTER">>),
                   tcode, rdate, rnum)

\* race_nodes = findall(root, "Race", "RACE")
chart_race_nodes(root) == findall(root, <<"Race", "RACE">>)

\* Whether emit_rows_chart raises (the ZeroDivisionError of a distance).
emit_rows_chart_raises(root) ==
  \E i \in 1..Len(chart_race_nodes(root)) :
    IsError(chart_dist_yards(At(root, chart_race_nodes(root)[i])))

chart_rows(root, tcode, rdate, rps) ==
  [race |-> [i \in 1..Len(rps) |-> chart_race_row(At(root, rps[i]), i, tcode, rdate)],
   entry |-> Flatten([i \in 1..Len(rps) |->
                        chart_entries_of(At(root, rps[i]), tcode, rdate,
                                         chart_rnum(At(root, rps[i]), i))])]

emit_rows_chart(root, default_track, default_date) ==
  chart_rows(root,
             OrElse(first_text(root, <<"TrackCode", "TRACK_CODE">>), default_track),
             OrElse(first_text(root, <<"RaceDate", "RACE_DATE">>), default_date),
             chart_race_nodes(root))

(***************************************************************************)
(* Filename-derived defaults                                               *)
(***************************************************************************)
\* Path.stem: the name up to its last dot, when that dot is neither first
\* nor last.
stem(name) ==
  LET dots == {i \in 1..Len(name) : name[i] = "."}
      i == IF dots = {} THEN 0 ELSE CHOOSE d \in dots : \A e \in dots : e <= d
  IN IF 1 < i /\ i < Len(name) THEN SubSeq(name, 1, i - 1) ELSE name

IsoDate(d8) == SubSeq(d8, 1, 4) \o <<"-">> \o SubSeq(d8, 5, 6) \o <<"-">> \o SubSeq(d8, 7, 8)

\* chart_xml._defaults_from_filename: <<track, date>>
chart_defaults_from_filename(name) ==
  LET st == stem(name)
  IN IF Len(st) >= 11 /\ AllDigits(SubSeq(st, 4, 11))
     THEN <<Some(upper(SubSeq(st, 1, 3))), Some(IsoDate(SubSeq(st, 4, 11)))>>
     ELSE <<None, None>>

\* datetime.strptime(d8, "%Y%m%d") succeeds
ValidDate(d8) ==
  LET y == DigitsValue(SubSeq(d8, 1, 4))
      m == DigitsValue(SubSeq(d8, 5, 6))
      d == DigitsValue(SubSeq(d8, 7, 8))
      leap == (y % 4 = 0 /\ y % 100 # 0) \/ y % 400 = 0
      dim == IF m = 2 THEN (IF leap THEN 29 ELSE 28)
             ELSE IF m \in {4, 6, 9, 11} THEN 30 ELSE 31
  IN m \in 1..12 /\ d >= 1 /\ d <= dim

\* A match of 20\d{6} at position i of name
DateAt(name, i) ==
  /\ i + 7 <= Len(name)
  /\ name[i] = "2" /\ name[i + 1] = "0"
  /\ AllDigits(SubSeq(name, i + 2, i + 7))

\* A match of ([A-Z]{2,4})[_\.] at position i of name: the length of the
\* group (greedy, then shorter), 0 when there is none.
CapsAt(name, i) ==
  LET fits(n) == /\ i + n <= Len(name)
                 /\ \A j \in i..(i + n - 1) : IsUpper(name[j])
                 /\ name[i + n] \in {"_", "."}
  IN IF fits(4) THEN 4 ELSE IF fits(3) THEN 3 ELSE IF fits(2) THEN 2 ELSE 0

\* pp_xml._defaults_from_filename: <<track, rdate>>
pp_defaults_from_filename(name) ==
  LET ds == {i \in 1..Len(name) : DateAt(name, i)}
      d1 == SeqMin(ds)
      rdate == IF ds # {} /\ ValidDate(SubSeq(name, d1, d1 + 7))
               THEN Some(IsoDate(SubSeq(name, d1, d1 + 7))) ELSE None
      m2 == {i \in ds : CapsAt(name, i + 8) > 0}
      m3 == {i \in 1..Len(name) : CapsAt(name, i) > 0}
      track == IF m2 # {}
               THEN Some(SubSeq(name, SeqMin(m2) + 8, SeqMin(m2) + 7 + CapsAt(name, SeqMin(m2) + 8)))
               ELSE IF m3 # {}
               THEN Some(SubSeq(name, SeqMin(m3), SeqMin(m3) + CapsAt(name, SeqMin(m3)) - 1))
               ELSE None
  IN <<track, rdate>>

(***************************************************************************)
(* The database: tables are sets of rows                                   *)
(***************************************************************************)
EmptyDb ==
  [raw_ingest_file |-> {}, stg_pp_race |-> {}, stg_pp_entry |-> {}, stg_pp_workout |-> {},
   stg_chart_race |-> {}, stg_chart_entry |-> {}, race |-> {}]

StagingTables ==
  {"stg_pp_race", "stg_pp_entry", "stg_pp_workout", "stg_chart_race", "stg_chart_entry"}

KeyOf(row, key) == [k \in key |-> row[k]]

\* The key columns of the staging tables are declared NOT NULL: a row with a
\* null in one of them makes the statement fail.
NotNullViolation(row, key) == \E k \in key : row[k] = None

\* insert ... on conflict (key) do nothing, for one row.
InsertOnConflictBuggy(table, row, key, upd) ==
  IF \E r \in table : KeyOf(r, key) = KeyOf(row, key) THEN table ELSE table \cup {row}

\* insert ... on conflict (key) do update set c = excluded.c for c in upd,
\* for one row.
InsertOnConflict(table, row, key, upd) ==
  IF \E r \in table : KeyOf(r, key) = KeyOf(row, key)
  THEN {IF KeyOf(r, key) = KeyOf(row, key)
        THEN [k \in DOMAIN r |-> IF k \in upd THEN row[k] ELSE r[k]]
        ELSE r : r \in table}
  ELSE table \cup {row}

\* conn.execute(text(sql), payload) with a list payload: the statement runs
\* once per row, in order; the first failing row raises.
RECURSIVE ExecuteMany(_, _, _, _)
ExecuteMany(table, payload, key, upd) ==
  IF payload = <<>> THEN [ok |-> TRUE, table |-> table]
  ELSE IF NotNullViolation(Head(payload), key) THEN [ok |-> FALSE, table |-> table]
  ELSE ExecuteMany(InsertOnConflict(table, Head(payload), key, upd), Tail(payload), key, upd)

\* The whole-file sha256 digest, taken to be collision free: it is carried
\* as the content it was computed from.
sha256_of_file(content) == <<"sha256", content>>

\* The file_id default of raw_ingest_file: the next value of its sequence.
nextval(seq) == seq + 1

\* A registration that replaces the record of the content by a new one.
register_file_new_id(table, seq, file_name, content, track_code, race_date, provider, file_type) ==
  LET row == [file_id |-> nextval(seq), provider |-> provider, file_type |-> file_type,
              track_code |-> track_code, race_date |-> race_date,
              file_name |-> file_name, file_hash |-> sha256_of_file(content)]
      old == {r \in table : r.file_hash = row.file_hash}
  IN [table |-> (table \ old) \cup {row}, file_id |-> row.file_id, seq |-> nextval(seq)]

\* register_file of db/files.py and of pp_xml.py (the same statement; pp_xml
\* fixes provider and file_type): [table, file_id, seq].
register_file(table, seq, file_name, content, track_code, race_date, provider, file_type) ==
  LET file_hash == sha256_of_file(content)
      row == [file_id |-> nextval(seq), provider |-> provider, file_type |-> file_type,
              track_code |-> track_code, race_date |-> race_date,
              file_name |-> file_name, file_hash |-> file_hash]
      old == {r \in table : r.file_hash = file_hash}
  IN IF old = {}
     THEN [table |-> table \cup {row}, file_id |-> row.file_id, seq |-> nextval(seq)]
     ELSE [table |-> {IF r \in old THEN [r EXCEPT !.file_name = file_name] ELSE r : r \in table},
           file_id |-> (CHOOSE r \in old : TRUE).file_id,
           seq |-> nextval(seq)]

\* dict(fid=file_id, **r) / {**r, "source_file_id": file_id}
WithFileId(rows, file_id) ==
  [i \in 1..Len(rows) |-> WithField(rows[i], "source_file_id", Some(file_id))]

(***************************************************************************)
(* pp_xml._upsert_staging: the three statements                            *)
(***************************************************************************)
pp_race_key == {"source_file_id", "track_code", "race_date", "race_number"}
pp_race_update ==
  {"surface", "distance_yards", "track_condition", "purse", "wager_text",
   "program_selections", "row_fingerprint"}
pp_entry_key == {"source_file_id", "track_code", "race_date", "race_number", "program_number"}
pp_entry_update ==
  {"horse_name", "trainer_name", "jockey_name", "ml_odds", "speed_fig_last", "pace_fig1",
   "pace_fig2", "pace_fig3", "class_rating", "last_comment", "row_fingerprint"}
pp_workout_key == {"source_file_id", "horse_name", "work_date", "track_code", "distance_furlongs"}
pp_workout_update == {"time_raw", "bullet_flag", "row_fingerprint"}

(***************************************************************************)
(* chart_xml._upsert_staging and build_upsert_sql                          *)
(***************************************************************************)
race_wanted ==
  <<"source_file_id", "track_code", "race_date", "race_number", "surface", "distance_yards",
    "track_condition", "row_fingerprint">>
entry_wanted ==
  <<"source_file_id", "track_code", "race_date", "race_number", "program_number", "horse_name",
    "finish_position", "final_odds", "win_payoff", "place_payoff", "show_payoff",
    "row_fingerprint">>
race_pk_wanted == <<"source_file_id", "track_code", "race_date", "race_number">>
entry_pk_wanted == <<"source_file_id", "track_code", "race_date", "race_number", "program_number">>

SeqToSet(q) == {q[i] : i \in 1..Len(q)}

\* [c for c in wanted if c in actual]
ColsPresent(wanted, actual) == SelectSeq(wanted, LAMBDA c : c \in actual)

\* build_upsert_sql: update_cols = [c for c in cols if c not in conflict_cols]
update_cols(cols, conflict_cols) == SeqToSet(cols) \ SeqToSet(conflict_cols)

\* payload = [{k: v for k, v in d.items() if k in cols} for d in payload]
RestrictTo(rows, cols) ==
  [i \in 1..Len(rows) |-> [k \in DOMAIN rows[i] \cap SeqToSet(cols) |-> rows[i][k]]]

(***************************************************************************)
(* Input files: names and contents                                         *)
(***************************************************************************)
\* How many runs of a main() a behaviour holds.
MaxRuns == 2

N(tag, kids) == Elem(tag, <<>>, NoAttrib, kids)
KEE == <<"K", "E", "E">>

\* 20230422KEE_PP.xml, 20230423SAR_PP.xml, pp.xml
PPNames ==
  {<<"2", "0", "2", "3", "0", "4", "2", "2", "K", "E", "E", "_", "P", "P", ".", "x", "m", "l">>,
   <<"2", "0", "2", "3", "0", "4", "2", "3", "S", "A", "R", "_", "P", "P", ".", "x", "m", "l">>,
   <<"p", "p", ".", "x", "m", "l">>}

\* kee20231014tch.xml, sar20231015tch.xml, chart.xml
ChartNames ==
  {<<"k", "e", "e", "2", "0", "2", "3", "1", "0", "1", "4", "t", "c", "h", ".", "x", "m", "l">>,
   <<"s", "a", "r", "2", "0", "2", "3", "1", "0", "1", "5", "t", "c", "h", ".", "x", "m", "l">>,
   <<"c", "h", "a", "r", "t", ".", "x", "m", "l">>}

PPContents == 1..6
ChartContents == 11..16

\* etree.parse of a past-performance file's content.
PPDoc(c) ==
  CASE c = 1 ->
         \* one race, one starter, one workout
         N("PastPerformance",
           <<N("Track", <<Leaf("Code", KEE)>>),
             N("Race", <<Leaf("Number", <<"1">>), Leaf("AgeRestriction", <<"3", "U">>),
                         Leaf("Purse", <<"5", "0", "0", "0", ".", "0">>),
                         N("Starter", <<Leaf("Program", <<"1">>), Leaf("HorseName", <<"A">>),
                                        Leaf("Sire", <<"S">>)>>)>>),
             N("Workout", <<Leaf("HorseName", <<"A">>), Leaf("Date", <<"d">>),
                            Leaf("DistanceFurlongs", <<"4">>), Leaf("Surface", <<"D">>)>>)>>)
    [] c = 2 ->
         \* the same race, the same starter and the same workout twice, with
         \* different field values
         N("PastPerformance",
           <<N("Race", <<Leaf("Number", <<"1">>), Leaf("AgeRestriction", <<"3", "U">>),
                         Leaf("Purse", <<"1", "0">>),
                         Elem("Starter", <<>>, ("pp" :> <<"2">>),
                              <<Leaf("Sire", <<"S", "1">>), Leaf("Jockey", <<"J", "1">>)>>)>>),
             N("Race", <<Leaf("Number", <<"1", ".", "0">>), Leaf("AgeRestriction", <<"4", "U">>),
                         Leaf("Purse", <<"2", "0">>),
                         N("Starter", <<Leaf("Program", <<"2">>), Leaf("Sire", <<"S", "2">>),
                                        Leaf("Jockey", <<"J", "2">>)>>)>>),
             N("Workout", <<Leaf("HorseName", <<"A">>), Leaf("Date", <<"d">>),
                            Leaf("DistanceFurlongs", <<"4">>), Leaf("Surface", <<"D">>),
                            Leaf("Time", <<"4", "8">>)>>),
             N("Workout", <<Leaf("HorseName", <<"A">>), Leaf("Date", <<"d">>),
                            Leaf("DistanceFurlongs", <<"4", ".", "0">>), Leaf("Surface", <<"T">>),
                            Leaf("Time", <<"4", "9">>)>>)>>)
    [] c = 3 ->
         \* a starter without a program number
         N("PastPerformance",
           <<N("Race", <<Leaf("Number", <<"1">>),
                         N("Starter", <<Leaf("HorseName", <<"B">>)>>)>>)>>)
    [] c = 4 ->
         \* one race without a race number, two races with one
         N("PastPerformance",
           <<N("Race", <<Leaf("Surface", <<"D">>),
                         N("Starter", <<Leaf("Program", <<"7">>)>>)>>),
             N("Race", <<Leaf("Number", <<"1">>),
                         N("Starter", <<Leaf("Program", <<"1">>)>>)>>),
             N("RACE", <<Leaf("NUMBER", <<"2">>),
                         N("STARTER", <<Leaf("PROGRAM", <<"2", "A">>)>>)>>)>>)
    [] c = 5 ->
         \* a workout without a date
         N("PastPerformance",
           <<N("Race", <<Leaf("Number", <<"1">>),
                         N("Starter", <<Leaf("Program", <<"1">>)>>)>>),
             N("Workout", <<Leaf("HorseName", <<"A">>),
                            Leaf("DistanceFurlongs", <<"4">>)>>)>>)
    [] c = 6 ->
         \* workouts only
         N("PastPerformance",
           <<Leaf("RaceDate", <<"x">>),
             N("Workout", <<Leaf("HorseName", <<"A">>), Leaf("Date", <<"d">>),
                            Leaf("DistanceFurlongs", <<"5">>), Leaf("Bullet", <<"y">>)>>)>>)

\* etree.parse of a chart file's content.
ChartDoc(c) ==
  CASE c = 11 ->
         \* track and date in the document
         N("Chart",
           <<Leaf("TrackCode", KEE),
             Leaf("RaceDate", <<"2", "0", "2", "3", "-", "1", "0", "-", "1", "4">>),
             N("Race", <<Leaf("RaceNumber", <<"1">>), Leaf("Surface", <<"D", "i", "r", "t">>),
                         Leaf("Distance", <<"6", " ", "F", "u", "r", "l", "o", "n", "g", "s">>),
                         N("Starters",
                           <<N("Starter", <<Leaf("ProgramNumber", <<"1">>), Leaf("Horse", <<"A">>),
                                            Leaf("WinPayoff", <<"4", ".", "2", "0">>)>>)>>)>>)>>)
    [] c = 12 ->
         \* neither track nor date in the document
         N("Chart",
           <<N("Race", <<Leaf("RaceNumber", <<"1">>),
                         N("Starters",
                           <<N("Starter", <<Leaf("ProgramNumber", <<"1", "A">>)>>)>>)>>)>>)
    [] c = 13 ->
         \* two races with a race number, one without
         N("Chart",
           <<Leaf("TrackCode", KEE),
             N("Race", <<Leaf("RaceNumber", <<"1">>),
                         N("Entries", <<N("Entry", <<Leaf("Program", <<"1">>)>>)>>)>>),
             N("Race", <<Leaf("RaceNumber", <<"2">>),
                         N("Entries", <<N("Entry", <<Leaf("Program", <<"2">>)>>)>>)>>),
             N("Race", <<Leaf("Surface", <<"T", "u", "r", "f">>),
                         N("Entries", <<N("Entry", <<Leaf("Program", <<"3">>)>>)>>)>>)>>)
    [] c = 14 ->
         \* both tag spellings, no race numbers
         N("Chart",
           <<Leaf("TrackCode", KEE),
             N("RACE", <<Leaf("SURFACE", <<"T", "u", "r", "f">>)>>),
             N("Race", <<Leaf("Surface", <<"D", "i", "r", "t">>)>>)>>)
    [] c = 15 ->
         \* the same race twice, with different field values
         N("Chart",
           <<Leaf("TrackCode", KEE),
             N("Race", <<Leaf("RaceNumber", <<"1">>), Leaf("Surface", <<"D", "i", "r", "t">>),
                         N("Entries", <<N("Entry", <<Leaf("Program", <<"1">>),
                                                     Leaf("Odds", <<"2", ".", "5">>)>>)>>)>>),
             N("Race", <<Leaf("RaceNumber", <<"1">>), Leaf("Surface", <<"T", "u", "r", "f">>),
                         N("Entries", <<N("Entry", <<Leaf("Program", <<"1">>),
                                                     Leaf("Odds", <<"3">>)>>)>>)>>)>>)
    [] c = 16 ->
         \* a distance that is a fraction over zero
         N("Chart",
           <<Leaf("TrackCode", KEE),
             N("Race", <<Leaf("RaceNumber", <<"1">>),
                         Leaf("Distance", <<"1", " ", "1", "/", "0", " ", "M", "i", "l", "e", "s">>)>>)>>)

(***************************************************************************)
(* State                                                                   *)
(***************************************************************************)
VARIABLES
  db,           \* the committed tables
  tx,           \* the tables as the open transaction sees them; NoTx when none is open
  file_id_seq,  \* the sequence behind raw_ingest_file.file_id
  cols_actual,  \* the columns information_schema reports for the chart staging tables,
                \* and whether a table that lacks key columns has a unique index
                \* on the key columns it does have
  pc,           \* where the running main() stands; "idle" between runs
  call,         \* the running main(): its arguments and locals
  hist          \* the finished runs, oldest first

vars == <<db, tx, file_id_seq, cols_actual, pc, call, hist>>

NoTx == <<>>
NoCall == <<>>

FullColumns ==
  [stg_chart_race |-> SeqToSet(race_wanted), stg_chart_entry |-> SeqToSet(entry_wanted),
   partial_key_unique |-> FALSE]

Init ==
  /\ db = EmptyDb
  /\ tx = NoTx
  /\ file_id_seq = 0
  /\ cols_actual = FullColumns
  /\ pc = "idle"
  /\ call = NoCall
  /\ hist = <<>>

NoRows == [race |-> <<>>, entry |-> <<>>, workout |-> <<>>]

\* rows = _emit_rows_pp(doc, default_track=d_track, default_date=d_date)
PPRowsOf(name, content) ==
  _emit_rows_pp(PPDoc(content), pp_defaults_from_filename(name)[1],
                pp_defaults_from_filename(name)[2])

\* rows = emit_rows_chart(doc, default_track=d_track, default_date=d_date)
ChartRowsOf(name, content) ==
  [workout |-> <<>>] @@
  emit_rows_chart(ChartDoc(content), chart_defaults_from_filename(name)[1],
                  chart_defaults_from_filename(name)[2])

\* Autocommit: a statement's result is committed at once.
CommittedAutocommit(committed, work) == work

\* with engine.begin(): a statement's result stays in the transaction; the
\* committed tables change at commit only.
CommittedDuring(committed, work) == committed

\* The record kept of a run of main().
Finished(c, outcome, post) ==
  [kind |-> c.kind, name |-> c.name, content |-> c.content, file_id |-> c.file_id,
   rows |-> c.rows, pre |-> c.pre, mid |-> c.mid, outcome |-> outcome, post |-> post]

\* An exception that leaves the statements before it committed.
RaiseCommitting(stage) ==
  /\ tx' = NoTx
  /\ db' = tx
  /\ pc' = "idle"
  /\ call' = NoCall
  /\ hist' = Append(hist, Finished(call, stage, tx))
  /\ UNCHANGED <<file_id_seq, cols_actual>>

\* The exception leaves the with block: rollback, and main() ends.
Raise(stage) ==
  /\ tx' = NoTx
  /\ db' = db
  /\ pc' = "idle"
  /\ call' = NoCall
  /\ hist' = Append(hist, Finished(call, stage, db))
  /\ UNCHANGED <<file_id_seq, cols_actual>>

\* One statement of the open transaction succeeded.
Wrote(table, rows, next) ==
  /\ tx' = [tx EXCEPT ![table] = rows]
  /\ db' = CommittedDuring(db, tx')
  /\ pc' = next
  /\ UNCHANGED <<file_id_seq, cols_actual, call, hist>>

\* The with block ends: commit.
Commit ==
  /\ pc = "commit"
  /\ db' = tx
  /\ tx' = NoTx
  /\ pc' = "idle"
  /\ call' = NoCall
  /\ hist' = Append(hist, Finished(call, "committed", tx))
  /\ UNCHANGED <<file_id_seq, cols_actual>>

\* main() from its start to the with block of _upsert_staging: register_file
\* (a transaction of its own, committed when it returns), then the rows.
Started(kind, name, content, reg, rows, next) ==
  /\ db' = [db EXCEPT !.raw_ingest_file = reg.table]
  /\ file_id_seq' = reg.seq
  /\ call' = [kind |-> kind, name |-> name, content |-> content, file_id |-> reg.file_id,
              rows |-> rows, pre |-> db, mid |-> db']
  /\ tx' = db'
  /\ pc' = next
  /\ UNCHANGED <<cols_actual, hist>>

(***************************************************************************)
(* pp_xml.main                                                             *)
(***************************************************************************)
PPMain(name, content) ==
  /\ pc = "idle"
  /\ Len(hist) < MaxRuns
  /\ Started("pp", name, content,
             register_file(db.raw_ingest_file, file_id_seq, name, content,
                           pp_defaults_from_filename(name)[1],
                           pp_defaults_from_filename(name)[2], "equibase", "pp"),
             PPRowsOf(name, content), "pp_race")

\* What one conn.execute of pp_xml._upsert_staging leads to.
Executed(table, rows, res, next) ==
  IF rows = <<>> THEN Wrote(table, tx[table], next)
  ELSE IF res.ok THEN Wrote(table, res.table, next)
  ELSE Raise(table)

PPStatement(at, table, rows, key, upd, next) ==
  /\ pc = at
  /\ Executed(table, rows, ExecuteMany(tx[table], WithFileId(rows, call.file_id), key, upd),
              next)

PPUpsertRace ==
  PPStatement("pp_race", "stg_pp_race", call.rows.race, pp_race_key, pp_race_update, "pp_entry")

PPUpsertEntry ==
  PPStatement("pp_entry", "stg_pp_entry", call.rows.entry, pp_entry_key, pp_entry_update,
              "pp_workout")

PPUpsertWorkout ==
  PPStatement("pp_workout", "stg_pp_workout", call.rows.workout, pp_workout_key,
              pp_workout_update, "commit")

(***************************************************************************)
(* chart_xml.main                                                          *)
(***************************************************************************)
\* emit_rows_chart raised: register_file has committed, nothing is staged.
ChartEmitRaised(name, content, reg) ==
  /\ db' = [db EXCEPT !.raw_ingest_file = reg.table]
  /\ file_id_seq' = reg.seq
  /\ hist' = Append(hist, [kind |-> "chart", name |-> name, content |-> content,
                           file_id |-> reg.file_id, rows |-> NoRows, pre |-> db, mid |-> db',
                           outcome |-> "emit_rows_chart", post |-> db'])
  /\ UNCHANGED <<tx, cols_actual, pc, call>>

ChartMain(name, content) ==
  /\ pc = "idle"
  /\ Len(hist) < MaxRuns
  /\ IF emit_rows_chart_raises(ChartDoc(content))
     THEN ChartEmitRaised(name, content,
                          register_file(db.raw_ingest_file, file_id_seq, name, content,
                                        chart_defaults_from_filename(name)[1],
                                        chart_defaults_from_filename(name)[2],
                                        "equibase", "chart"))
     ELSE Started("chart", name, content,
                  register_file(db.raw_ingest_file, file_id_seq, name, content,
                                chart_defaults_from_filename(name)[1],
                                chart_defaults_from_filename(name)[2], "equibase", "chart"),
                  ChartRowsOf(name, content), "chart_race")

\* One `if rows[...] and cols and pk:` block of chart_xml._upsert_staging.
\* The statement names pk as its conflict target: the database rejects it
\* when no unique index is on exactly these columns, which for the whole key
\* there is, and for a part of the key there is or is not.
ChartBlock(table, rows, cols, pk, pk_wanted, next) ==
  IF rows = <<>> \/ cols = <<>> \/ pk = <<>> THEN Wrote(table, tx[table], next)
  ELSE IF pk # pk_wanted /\ ~cols_actual.partial_key_unique THEN Raise(table)
  ELSE Executed(table, rows,
                ExecuteMany(tx[table], RestrictTo(WithFileId(rows, call.file_id), cols),
                            SeqToSet(pk), update_cols(cols, pk)),
                next)

ChartStatement(at, table, rows, wanted, pk_wanted, next) ==
  /\ pc = at
  /\ ChartBlock(table, rows, ColsPresent(wanted, cols_actual[table]),
                ColsPresent(pk_wanted, cols_actual[table]), pk_wanted, next)

ChartUpsertRace ==
  ChartStatement("chart_race", "stg_chart_race", call.rows.race, race_wanted, race_pk_wanted,
                 "chart_entry")

ChartUpsertEntry ==
  ChartStatement("chart_entry", "stg_chart_entry", call.rows.entry, entry_wanted,
                 entry_pk_wanted, "commit")

Next ==
  \/ \E name \in PPNames, content \in PPContents : PPMain(name, content)
  \/ PPUpsertRace
  \/ PPUpsertEntry
  \/ PPUpsertWorkout
  \/ \E name \in ChartNames, content \in ChartContents : ChartMain(name, content)
  \/ ChartUpsertRace
  \/ ChartUpsertEntry
  \/ Commit

Spec == Init /\ [][Next]_vars

(***************************************************************************)
(* chart_xml.main against destinations that lack columns                   *)
(***************************************************************************)
\* The columns a chart staging table may lack: none, a non-key column, one
\* key column, every key column.
RaceColumnSets ==
  {SeqToSet(race_wanted), SeqToSet(race_wanted) \ {"surface"},
   SeqToSet(race_wanted) \ {"race_date"}, SeqToSet(race_wanted) \ SeqToSet(race_pk_wanted)}
EntryColumnSets ==
  {SeqToSet(entry_wanted), SeqToSet(entry_wanted) \ {"final_odds"},
   SeqToSet(entry_wanted) \ {"program_number"},
   SeqToSet(entry_wanted) \ SeqToSet(entry_pk_wanted)}
Schemas ==
  [stg_chart_race : RaceColumnSets, stg_chart_entry : EntryColumnSets,
   partial_key_unique : BOOLEAN]

\* kee20231014tch.xml
SchemaNames == {n \in ChartNames : n[1] = "k"}

InitSchema ==
  /\ db = EmptyDb
  /\ tx = NoTx
  /\ file_id_seq = 0
  /\ cols_actual \in Schemas
  /\ pc = "idle"
  /\ call = NoCall
  /\ hist = <<>>

NextSchema ==
  \/ \E name \in SchemaNames, content \in ChartContents : ChartMain(name, content)
  \/ ChartUpsertRace
  \/ ChartUpsertEntry
  \/ Commit

SpecSchema == InitSchema /\ [][NextSchema]_vars

(***************************************************************************)
(* etl/parse_equibase_xml.py                                               *)
(***************************************************************************)
\* Element.findtext("a/b"): the text of the first b child of an a child, in
\* document order ("" when it has none); None when there is none.
findtext_path(node, a, b) ==
  With(SelectSeq(DescPaths(node),
                 LAMBDA p : Len(p) = 2 /\ At(node, <<p[1]>>).tag = a /\ At(node, p).tag = b),
       LAMBDA ps : IF ps = <<>> THEN None ELSE Some(At(node, ps[1]).text))

\* f"{race_num:02d}"
Format02d(n) ==
  IF n < 0 THEN <<"-">> \o IntToText(0 - n)
  ELSE IF n < 10 THEN <<"0">> \o IntToText(n)
  ELSE IntToText(n)

\* int(root.findtext("RACE/NUMBER") or 0); None stands for the ValueError.
stub_race_num(root) ==
  With(findtext_path(root, "RACE", "NUMBER"), LAMBDA t :
    IF t = None \/ Val(t) = <<>> THEN Some(0) ELSE py_int(Val(t)))

\* The dict parse_race_stub returns, given its first three locals.
race_stub(root, track_code, race_date, race_num) ==
  [race_id |-> Some(track_code \o <<"_">> \o race_date \o <<"_">> \o Format02d(race_num)),
   track_code |-> Some(track_code),
   race_date |-> Some(race_date),
   race_num |-> Some(race_num),
   surface |-> findtext_path(root, "RACE", "SURFACE"),
   distance_yards |-> None,
   field_size |-> None,
   condition_text |-> findtext_path(root, "RACE", "CONDITION"),
   track_condition |-> findtext_path(root, "RACE", "TRACK_CONDITION")]

\* parse_race_stub; it raises exactly when stub_race_num does.
parse_race_stub(root) ==
  race_stub(root,
            Val(OrElse(findtext_path(root, "TRACK", "CODE"), Some(<<"U", "N", "K">>))),
            Val(OrElse(findtext(root, "RACE_DATE"),
                       Some(<<"1", "9", "7", "0", "-", "0", "1", "-", "0", "1">>))),
            Val(stub_race_num(root)))

race_key == {"race_id"}
race_update == {"surface", "distance_yards", "field_size", "condition_text", "track_condition"}

\* upsert_race: the table after the statement.
upsert_race(table, race) == InsertOnConflict(table, race, race_key, race_update)

\* How many files a run of parse_equibase_xml.main is given.
MaxFiles == 3

EtlContents == 21..25

\* etree.parse raises XMLSyntaxError on content 24, which is not well formed.
EtlParses(c) == c # 24

EtlRace(num, surface) ==
  N("CHART", <<N("TRACK", <<Leaf("CODE", KEE)>>), Leaf("RACE_DATE", <<"d">>),
               N("RACE", <<Leaf("NUMBER", num), Leaf("SURFACE", surface)>>)>>)

\* etree.parse of a file the batch driver is given.
EtlDoc(c) ==
  CASE c = 21 -> EtlRace(<<"1">>, <<"D">>)
    [] c = 22 -> EtlRace(<<" ", "1">>, <<"T">>)
    [] c = 23 -> EtlRace(<<"2">>, <<"D">>)
    [] c = 24 -> N("CHART", <<>>)
    [] c = 25 -> EtlRace(<<"x">>, <<"D">>)

EtlFileLists == UNION {[1..n -> EtlContents] : n \in 1..MaxFiles}

\* with engine.begin() as conn:
EtlBegin(files) ==
  /\ pc = "idle"
  /\ hist = <<>>
  /\ tx' = db
  /\ call' = [kind |-> "etl", files |-> files, i |-> 1, aborted |-> FALSE, log |-> <<>>,
              pre |-> db]
  /\ pc' = "etl_file"
  /\ UNCHANGED <<db, file_id_seq, cols_actual, hist>>

\* The loop goes on to the next file; `how` is what the iteration came to.
EtlNext(how, aborted, table) ==
  /\ call' = [call EXCEPT !.i = call.i + 1, !.log = Append(call.log, how),
                          !.aborted = aborted]
  /\ tx' = [tx EXCEPT !.race = table]
  /\ UNCHANGED <<db, file_id_seq, cols_actual, pc, hist>>

\* One iteration of `for p in files`: try parse, parse_race_stub, upsert_race;
\* except Exception: print.  `rejected` is the database's answer to the
\* statement.  After a failed statement the transaction is aborted and every
\* later statement of it fails.
EtlFile(rejected) ==
  /\ pc = "etl_file"
  /\ call.i <= Len(call.files)
  /\ IF ~EtlParses(call.files[call.i]) THEN EtlNext("XMLSyntaxError", call.aborted, tx.race)
     ELSE IF stub_race_num(EtlDoc(call.files[call.i])) = None
     THEN EtlNext("ValueError", call.aborted, tx.race)
     ELSE IF call.aborted THEN EtlNext("InFailedSqlTransaction", TRUE, tx.race)
     ELSE IF rejected THEN EtlNext("rejected", TRUE, tx.race)
     ELSE EtlNext("ok", FALSE, upsert_race(tx.race, parse_race_stub(EtlDoc(call.files[call.i]))))

\* The with block ends without an exception: COMMIT, which rolls back when
\* the transaction is aborted.
EtlEnd ==
  /\ pc = "etl_file"
  /\ call.i > Len(call.files)
  /\ db' = IF call.aborted THEN db ELSE tx
  /\ tx' = NoTx
  /\ pc' = "idle"
  /\ call' = NoCall
  /\ hist' = Append(hist, [kind |-> "etl", files |-> call.files, log |-> call.log,
                           pre |-> call.pre, post |-> db'])
  /\ UNCHANGED <<file_id_seq, cols_actual>>

NextEtl ==
  \/ \E files \in EtlFileLists : EtlBegin(files)
  \/ \E rejected \in BOOLEAN : EtlFile(rejected)
  \/ EtlEnd

SpecEtl == Init /\ [][NextEtl]_vars

(***************************************************************************)
(* Properties                                                              *)
(***************************************************************************)
Staging(d) == [t \in StagingTables |-> d[t]]
StagingEmpty(d) == \A t \in StagingTables : d[t] = {}

\* The batches a run hands to its statements, in statement order: the table,
\* the rows as sent (with the file id), the conflict key.
Batches(r) ==
  IF r.kind = "pp"
  THEN <<[table |-> "stg_pp_race", rows |-> WithFileId(r.rows.race, r.file_id),
          key |-> pp_race_key],
         [table |-> "stg_pp_entry", rows |-> WithFileId(r.rows.entry, r.file_id),
          key |-> pp_entry_key],
         [table |-> "stg_pp_workout", rows |-> WithFileId(r.rows.workout, r.file_id),
          key |-> pp_workout_key]>>
  ELSE <<[table |-> "stg_chart_race",
          rows |-> RestrictTo(WithFileId(r.rows.race, r.file_id), race_wanted),
          key |-> SeqToSet(race_pk_wanted)],
         [table |-> "stg_chart_entry",
          rows |-> RestrictTo(WithFileId(r.rows.entry, r.file_id), entry_wanted),
          key |-> SeqToSet(entry_pk_wanted)]>>

\* Row k is the last row of the batch with its key.
IsLast(rows, key, k) ==
  \A m \in (k + 1)..Len(rows) : KeyOf(rows[m], key) # KeyOf(rows[k], key)

Committed(r) == r.outcome = "committed"
BatchFailed(r) == r.outcome \in StagingTables

SameFile(a, b) == a.kind = b.kind /\ a.name = b.name /\ a.content = b.content

\* C1: two register_file calls on the same content return the same file_id
\* whatever the file names, the registry holds at most one record per content
\* hash, and a call changes nothing of an existing record but its file_name.
C1_RegisterIdempotent ==
  /\ \A i, j \in 1..Len(hist) :
       hist[i].content = hist[j].content => hist[i].file_id = hist[j].file_id
  /\ \A i \in 1..Len(hist) :
       /\ \A r1, r2 \in hist[i].mid.raw_ingest_file : r1.file_hash = r2.file_hash => r1 = r2
       /\ \A old \in hist[i].pre.raw_ingest_file :
            \E new \in hist[i].mid.raw_ingest_file :
              new = [old EXCEPT !.file_name = new.file_name]

\* Two finished runs registered the same content under different names.
C1_Witness ==
  /\ Len(hist) = 2
  /\ hist[1].content = hist[2].content
  /\ hist[1].name # hist[2].name
  /\ Cardinality(db.raw_ingest_file) = 1

\* One stored row per key, carrying the fingerprint of the last row sent
\* with that key.
OnePerKey(d, b) ==
  /\ \A r1, r2 \in d[b.table] : KeyOf(r1, b.key) = KeyOf(r2, b.key) => r1 = r2
  /\ \A k \in 1..Len(b.rows) :
       IsLast(b.rows, b.key, k) =>
         \E st \in d[b.table] : /\ KeyOf(st, b.key) = KeyOf(b.rows[k], b.key)
                                /\ st.row_fingerprint = b.rows[k].row_fingerprint
  /\ \A st \in d[b.table] : \E k \in 1..Len(b.rows) : KeyOf(st, b.key) = KeyOf(b.rows[k], b.key)

\* C2: _upsert_staging called twice with the same file_id and the same rows,
\* from empty staging tables, leaves one stored row per natural key with the
\* fingerprint of the (identical) second write, and the state after the second
\* call is the state after the first.
C2_UpsertIdempotent ==
  \A i \in 1..(Len(hist) - 1) :
    (/\ SameFile(hist[i], hist[i + 1])
     /\ Committed(hist[i]) /\ Committed(hist[i + 1])
     /\ StagingEmpty(hist[i].pre))
    => /\ Staging(hist[i + 1].post) = Staging(hist[i].post)
       /\ \A n \in 1..Len(Batches(hist[i + 1])) :
            OnePerKey(hist[i + 1].post, Batches(hist[i + 1])[n])

\* The same file was staged twice, and one of its batches holds a key twice.
C2_Witness ==
  /\ Len(hist) = 2
  /\ SameFile(hist[1], hist[2])
  /\ Committed(hist[1]) /\ Committed(hist[2])
  /\ \E k \in 1..Len(hist[1].rows.race) : ~IsLast(hist[1].rows.race, pp_race_key \ {"source_file_id"}, k)

\* C3 as the spec states it: after a write onto an existing key, the stored
\* row equals the incoming row in every field.
C3_LastWriteWins ==
  \A i \in 1..Len(hist) :
    Committed(hist[i]) =>
      \A n \in 1..Len(Batches(hist[i])) :
        \A k \in 1..Len(Batches(hist[i])[n].rows) :
          IsLast(Batches(hist[i])[n].rows, Batches(hist[i])[n].key, k) =>
            Batches(hist[i])[n].rows[k] \in hist[i].post[Batches(hist[i])[n].table]

\* C4: a call of _upsert_staging commits every row of the document or, when
\* a write of it fails, leaves the staging tables as they were before the
\* call; no committed state shows a part of the document's rows.
C4_Atomic ==
  /\ pc # "idle" => db = call.mid
  /\ \A i \in 1..Len(hist) :
       /\ ~Committed(hist[i]) => Staging(hist[i].post) = Staging(hist[i].pre)
       /\ Committed(hist[i]) =>
            \A n \in 1..Len(Batches(hist[i])) :
              \A k \in 1..Len(Batches(hist[i])[n].rows) :
                \E st \in hist[i].post[Batches(hist[i])[n].table] :
                  KeyOf(st, Batches(hist[i])[n].key)
                    = KeyOf(Batches(hist[i])[n].rows[k], Batches(hist[i])[n].key)

\* A run failed in its entry batch after its race batch had been written.
C4_Witness ==
  \E i \in 1..Len(hist) : hist[i].outcome = "stg_pp_entry" /\ hist[i].rows.race # <<>>

\* C5 as the spec states it: when the entry batch fails, the race batch of
\* the same document is committed all the same.
C5_SiblingsCommitted ==
  \A i \in 1..Len(hist) :
    hist[i].outcome = "stg_pp_entry" =>
      \A k \in 1..Len(hist[i].rows.race) :
        \E st \in hist[i].post.stg_pp_race :
          KeyOf(st, pp_race_key) = KeyOf(Batches(hist[i])[1].rows[k], pp_race_key)

\* C5, amended: when the batch of one entity type fails, the batches of the
\* sibling entity types of the same document are rolled back with it: every
\* staging table is as it was before the call.
C5_SiblingsRolledBack ==
  \A i \in 1..Len(hist) :
    BatchFailed(hist[i]) =>
      \A t \in StagingTables \ {hist[i].outcome} : hist[i].post[t] = hist[i].pre[t]

\* A run failed in its workout batch after its race and entry batches had
\* been written.
C5_Witness ==
  \E i \in 1..Len(hist) :
    /\ hist[i].outcome = "stg_pp_workout"
    /\ hist[i].rows.race # <<>> /\ hist[i].rows.entry # <<>>
    /\ StagingEmpty(hist[i].pre)

\* The race row parse_race_stub makes of file i of a run of the batch driver.
EtlRow(r, i) == parse_race_stub(EtlDoc(r.files[i]))

\* C6 as the spec states it: at the end of a run of parse_equibase_xml.main
\* every file was gone through and the row of every file that succeeded is
\* committed, whatever happened to the other files.
C6_FilesAreAtomic ==
  \A n \in 1..Len(hist) :
    /\ Len(hist[n].log) = Len(hist[n].files)
    /\ \A i \in 1..Len(hist[n].files) :
         hist[n].log[i] = "ok" =>
           \E st \in hist[n].post.race : st.race_id = EtlRow(hist[n], i).race_id

\* C7 as the spec states it: a second run on the same content, under the
\* same or another file name, leaves every staging table as the first run
\* left it, and the registry too but for file_name.
C7_ReingestNoOp ==
  \A i \in 1..(Len(hist) - 1) :
    (/\ hist[i].kind = hist[i + 1].kind /\ hist[i].content = hist[i + 1].content
     /\ Committed(hist[i]) /\ Committed(hist[i + 1]))
    => /\ Staging(hist[i + 1].post) = Staging(hist[i].post)
       /\ \A old \in hist[i].post.raw_ingest_file :
            \E new \in hist[i + 1].post.raw_ingest_file :
              new = [old EXCEPT !.file_name = new.file_name]

\* The fields the extractor fingerprints: all but the file id and the
\* fingerprint.
Fingerprinted(st) == [k \in DOMAIN st \ {"source_file_id", "row_fingerprint"} |-> st[k]]

\* C8 as the spec states it: the row_fingerprint of every stored staging row
\* is the fingerprint of the row's stored field values.
C8_StoredFingerprint ==
  /\ \A t \in {"stg_pp_race", "stg_pp_entry", "stg_pp_workout"} :
       \A st \in db[t] : st.row_fingerprint = Some(pp_fingerprint(Fingerprinted(st)))
  /\ \A t \in {"stg_chart_race", "stg_chart_entry"} :
       \A st \in db[t] : st.row_fingerprint = Some(fingerprint(Fingerprinted(st)))

\* The race elements of a document whose race number does not resolve, and
\* those whose race number does: paths, tag by tag.
PPMalformed(root) ==
  SelectSeq(FindAllTags(root, <<"Race", "RACE">>),
            LAMBDA p : pp_safe_int(pp_rnum_txt(At(root, p))) = None)
PPWellFormed(root) ==
  SelectSeq(FindAllTags(root, <<"Race", "RACE">>),
            LAMBDA p : pp_safe_int(pp_rnum_txt(At(root, p))) # None)
ChartMalformed(root) ==
  SelectSeq(findall(root, <<"Race", "RACE">>),
            LAMBDA p : safe_int(first_text(At(root, p), chart_rnum_names)) = None)
ChartWellFormed(root) ==
  SelectSeq(findall(root, <<"Race", "RACE">>),
            LAMBDA p : safe_int(first_text(At(root, p), chart_rnum_names)) # None)

\* The run's document holds one malformed race and two well-formed races.
OneBadTwoGood(r) ==
  IF r.kind = "pp"
  THEN Len(PPMalformed(PPDoc(r.content))) = 1 /\ Len(PPWellFormed(PPDoc(r.content))) = 2
  ELSE Len(ChartMalformed(ChartDoc(r.content))) = 1
         /\ Len(ChartWellFormed(ChartDoc(r.content))) = 2

RaceTable(r) == IF r.kind = "pp" THEN "stg_pp_race" ELSE "stg_chart_race"

RECURSIVE SumLen(_)
SumLen(ss) == IF ss = <<>> THEN 0 ELSE Len(Head(ss)) + SumLen(Tail(ss))
PPEntrants(root) ==
  SumLen([i \in 1..Len(PPWellFormed(root)) |->
            FindAllTags(At(root, PPWellFormed(root)[i]), pp_entry_tags)])

DocumentOrder(root) ==
  SelectSeq(DescPaths(root), LAMBDA p : At(root, p).tag \in {"Race", "RACE"})
Ordinal(root, p) ==
  CHOOSE k \in 1..Len(DocumentOrder(root)) : DocumentOrder(root)[k] = p

\* The race number C10 gives the race element at path p.
ExpectedRaceNumber(root, p) ==
  IF safe_int(first_text(At(root, p), chart_rnum_names)) # None
  THEN safe_int(first_text(At(root, p), chart_rnum_names))
  ELSE Some(Ordinal(root, p))

\* C10 as the spec states it: emit_rows_chart makes one race row of every
\* race element, whose race_number is the element's own race number when it
\* has one that parses and otherwise the element's 1-based place among the
\* race elements of the document.
C10_OrdinalFallback ==
  \A i \in 1..Len(hist) :
    (hist[i].kind = "chart" /\ hist[i].outcome # "emit_rows_chart")
    => /\ Len(hist[i].rows.race) = Len(DocumentOrder(ChartDoc(hist[i].content)))
       /\ \A k \in 1..Len(hist[i].rows.race) :
            hist[i].rows.race[k].race_number
              = ExpectedRaceNumber(ChartDoc(hist[i].content),
                                   chart_race_nodes(ChartDoc(hist[i].content))[k])

\* C11 as the spec states it: every entry row and every workout row the
\* extractors return has a value in each of its natural-key fields, a record
\* whose key does not resolve being dropped.
C11_KeysResolved ==
  \A i \in 1..Len(hist) :
    /\ \A k \in 1..Len(hist[i].rows.entry) : hist[i].rows.entry[k].program_number # None
    /\ \A k \in 1..Len(hist[i].rows.workout) :
         \A f \in pp_workout_key \ {"source_file_id"} : hist[i].rows.workout[k][f] # None

(***************************************************************************)
(* The extractors' field functions, called on their own                    *)
(***************************************************************************)
\* How many calls a behaviour holds.
MaxCalls == 2

\* A call of a function on `arg` returned `out`.
Returned(fn, arg, out) ==
  /\ pc = "idle"
  /\ Len(hist) < MaxCalls
  /\ hist' = Append(hist, [fn |-> fn, arg |-> arg, out |-> out])
  /\ UNCHANGED <<db, tx, file_id_seq, cols_actual, pc, call>>

\* Program number texts: "1", "01", "1A", "12B", "1D", "abc", " 7 ", "2b",
\* "123", "09C", "0", "A1".
ProgramTexts ==
  {<<"1">>, <<"0", "1">>, <<"1", "A">>, <<"1", "2", "B">>, <<"1", "D">>, <<"a", "b", "c">>,
   <<" ", "7", " ">>, <<"2", "b">>, <<"1", "2", "3">>, <<"0", "9", "C">>, <<"0">>,
   <<"A", "1">>}

\* The program number both extractors make of a starter <Starter><Program>t
\* </Program></Starter>: prog of _emit_rows_pp, prog of the two starter loops
\* of emit_rows_chart (None: the starter is passed over).
ProgramNumberCall(t) ==
  Returned("program_number", t,
           [pp |-> pp_program_number(N("Starter", <<Leaf("Program", t)>>)),
            chart1 |-> chart_prog(N("Starter", <<Leaf("Program", t)>>), chart_prog_names1),
            chart2 |-> chart_prog(N("Starter", <<Leaf("Program", t)>>), chart_prog_names2)])

\* Distance strings: a whole number, an optional fraction num/den (num = 0:
\* none) and the unit word.
UnitWords ==
  {<<"F", "u", "r", "l", "o", "n", "g", "s">>, <<"M", "i", "l", "e">>,
   <<"M", "i", "l", "e", "s">>}
DistanceInputs ==
  [whole : {1, 5, 6}, frac : {<<0, 1>>, <<1, 2>>, <<1, 16>>}, unit : UnitWords]

\* "6 Furlongs", "1 1/16 Miles", "5 1/2 Furlongs"
DistanceText(d) ==
  IntToText(d.whole)
    \o (IF d.frac[1] = 0 THEN <<>>
        ELSE <<" ">> \o IntToText(d.frac[1]) \o <<"/">> \o IntToText(d.frac[2]))
    \o <<" ">> \o d.unit

YardsCall(d) == Returned("yards", d, yards_from_furlongs_miles(Some(DistanceText(d))))

\* Numeric distances with a unit attribute: <Race><Distance unit="F">650
\* </Distance></Race>.  Values 6, 46, 650, 651, 10000; units F, Furlongs,
\* Miles.
DistanceValues ==
  {<<"6">>, <<"4", "6">>, <<"6", "5", "0">>, <<"6", "5", "1">>, <<"1", "0", "0", "0", "0">>}
DistanceUnits ==
  {<<"F">>, <<"F", "u", "r", "l", "o", "n", "g", "s">>, <<"M", "i", "l", "e", "s">>}
UnitCoded(raw, unit) ==
  N("Race", <<Elem("Distance", raw, [a \in {"unit"} |-> unit], <<>>)>>)

\* dist_yards of emit_rows_chart for such a race.
DistYardsCall(raw, unit) ==
  Returned("dist_yards", [raw |-> raw, unit |-> unit], chart_dist_yards(UnitCoded(raw, unit)))

\* Texts of integer fields: "12", "12.0", "12.5", "-3", " 7 ", "", " ",
\* "abc", "1.2.3", and the missing element.
IntTexts ==
  {Some(<<"1", "2">>), Some(<<"1", "2", ".", "0">>), Some(<<"1", "2", ".", "5">>),
   Some(<<"-", "3">>), Some(<<" ", "7", " ">>), Some(<<>>), Some(<<" ">>),
   Some(<<"a", "b", "c">>), Some(<<"1", ".", "2", ".", "3">>), None}

\* safe_int as emit_rows_chart imports it (hhml.utils) and as _emit_rows_pp
\* defines it (pp_xml.safe_int), on the same text.
SafeIntCall(v) == Returned("safe_int", v, [chart |-> safe_int(v), pp |-> pp_safe_int(v)])

\* File names: kee20231014tch.xml, sar20231015tch.xml, SIMD20231014KEE.xml, 20230422KEE_PP.xml, 20231340KEE_PP.xml,
\* pp.xml, chart.xml, abx12345678xyz.xml, notes_KEE.xml, results-final-v2.xml, readme.
FileNames ==
  {<<"k", "e", "e", "2", "0", "2", "3", "1", "0", "1", "4", "t", "c", "h", ".", "x", "m", "l">>,
   <<"s", "a", "r", "2", "0", "2", "3", "1", "0", "1", "5", "t", "c", "h", ".", "x", "m", "l">>,
   <<"S", "I", "M", "D", "2", "0", "2", "3", "1", "0", "1", "4", "K", "E", "E", ".", "x", "m", "l">>,
   <<"2", "0", "2", "3", "0", "4", "2", "2", "K", "E", "E", "_", "P", "P", ".", "x", "m", "l">>,
   <<"2", "0", "2", "3", "1", "3", "4", "0", "K", "E", "E", "_", "P", "P", ".", "x", "m", "l">>,
   <<"p", "p", ".", "x", "m", "l">>,
   <<"c", "h", "a", "r", "t", ".", "x", "m", "l">>,
   <<"a", "b", "x", "1", "2", "3", "4", "5", "6", "7", "8", "x", "y", "z", ".", "x", "m", "l">>,
   <<"n", "o", "t", "e", "s", "_", "K", "E", "E", ".", "x", "m", "l">>,
   <<"r", "e", "s", "u", "l", "t", "s", "-", "f", "i", "n", "a", "l", "-", "v", "2", ".", "x", "m", "l">>,
   <<"r", "e", "a", "d", "m", "e">>}

\* _defaults_from_filename of chart_xml and of pp_xml on the same name.
DefaultsCall(name) ==
  Returned("defaults_from_filename", name,
           [chart |-> chart_defaults_from_filename(name),
            pp |-> pp_defaults_from_filename(name)])

\* A dict as Python holds it: its key/value pairs in insertion order.
\* The dicts of one to three of these pairs, in every order.
ItemPairs ==
  {<<"track_code", Some(KEE)>>, <<"race_number", Some(1)>>, <<"race_number", Some(2)>>,
   <<"surface", None>>}
Dicts ==
  {q \in UNION {[1..n -> ItemPairs] : n \in 1..3} :
     \A i, j \in 1..Len(q) : i # j => q[i][1] # q[j][1]}

\* The mapping a dict is, whatever its insertion order.
DictOf(items) ==
  [k \in {items[i][1] : i \in 1..Len(items)} |->
     items[CHOOSE i \in 1..Len(items) : items[i][1] = k][2]]

\* json.dumps without sort_keys: the pairs in insertion order.
json_dumps_insertion_order(items) == items
\* json.dumps(row, sort_keys=True, ...): the pairs in sorted key order.
json_dumps_sort_keys(items) == CanonicalJson(DictOf(items))

\* fingerprint of hhml.utils (sha1), of pp_xml and of hhml.ingest.utils (md5)
\* on a dict.
FingerprintCall(items) ==
  Returned("fingerprint", items,
           [utils |-> <<"sha1", json_dumps_sort_keys(items)>>,
            pp |-> <<"md5", json_dumps_sort_keys(items)>>,
            ingest |-> <<"md5", json_dumps_sort_keys(items)>>])

NextPure ==
  \/ \E items \in Dicts : FingerprintCall(items)
  \/ \E name \in FileNames : DefaultsCall(name)
  \/ \E v \in IntTexts : SafeIntCall(v)
  \/ \E raw \in DistanceValues, unit \in DistanceUnits : DistYardsCall(raw, unit)
  \/ \E t \in ProgramTexts : ProgramNumberCall(t)
  \/ \E d \in DistanceInputs : YardsCall(d)

SpecPure == Init /\ [][NextPure]_vars

\* The calls of fn a behaviour has made.
Calls(fn) == {i \in 1..Len(hist) : hist[i].fn = fn}

\* A base number of one or two digits without leading zero, then nothing or
\* one of A, B, C.
IsCanonicalProgram(p) ==
  /\ DigitRun(p) \in 1..2
  /\ DigitRun(p) = 2 => p[1] # "0"
  /\ \/ AfterDigits(p) = <<>>
     \/ Len(AfterDigits(p)) = 1 /\ AfterDigits(p)[1] \in {"A", "B", "C"}

\* C12 as the spec states it: the program number of an emitted entry is in
\* canonical form; "1", "01", "1A", "12B" give "1", "1", "1A", "12B", and
\* "1D" and "abc" are rejected.
C12_CanonicalProgram ==
  \A i \in Calls("program_number") :
    \A x \in {hist[i].out.pp, hist[i].out.chart1, hist[i].out.chart2} :
      /\ x # None => IsCanonicalProgram(Val(x))
      /\ hist[i].arg \in {<<"1">>, <<"0", "1">>} => x = Some(<<"1">>)
      /\ hist[i].arg = <<"1", "A">> => x = Some(<<"1", "A">>)
      /\ hist[i].arg = <<"1", "2", "B">> => x = Some(<<"1", "2", "B">>)
      /\ hist[i].arg \in {<<"1", "D">>, <<"a", "b", "c">>} => x = None

\* The yards of a distance: its value (whole + num/den) times 220 for
\* furlongs and times 1760 for miles, rounded to an integer.
YardsPerUnit(unit) == IF unit[1] = "F" THEN 220 ELSE 1760
ExpectedYards(d) ==
  RoundFraction((d.whole * d.frac[2] + d.frac[1]) * YardsPerUnit(d.unit), d.frac[2])

\* C13 as the spec states it: yards_from_furlongs_miles returns the value of
\* the whole number and its optional mixed fraction times 220 for furlongs and
\* times 1760 for miles, rounded, for both units alike; "6 Furlongs" gives
\* 1320, "1 Mile" 1760, "1 1/16 Miles" 1870 and "5 1/2 Furlongs" 1210.
C13_MixedFractionBothUnits ==
  \A i \in Calls("yards") :
    /\ hist[i].out = Some(ExpectedYards(hist[i].arg))
    /\ DistanceText(hist[i].arg) = <<"6", " ", "F", "u", "r", "l", "o", "n", "g", "s">>
         => hist[i].out = Some(1320)
    /\ DistanceText(hist[i].arg) = <<"1", " ", "M", "i", "l", "e">> => hist[i].out = Some(1760)
    /\ DistanceText(hist[i].arg)
         = <<"1", " ", "1", "/", "1", "6", " ", "M", "i", "l", "e", "s">>
         => hist[i].out = Some(1870)
    /\ DistanceText(hist[i].arg)
         = <<"5", " ", "1", "/", "2", " ", "F", "u", "r", "l", "o", "n", "g", "s">>
         => hist[i].out = Some(1210)

\* C14 as the spec states it: the value 650 with furlong unit code gives 1430
\* yards, and the distance_yards emit_rows_chart gives a race row is absent or
\* a whole number of yards not above 10,000 (hundredths: a multiple of 100
\* not above 1,000,000).
C14_WholeYardsBelowTenThousand ==
  \A i \in Calls("dist_yards") :
    /\ hist[i].arg = [raw |-> <<"6", "5", "0">>, unit |-> <<"F">>]
         => hist[i].out # None /\ Val(hist[i].out).h = 143000
    /\ hist[i].out # None
         => Val(hist[i].out).h % 100 = 0 /\ Val(hist[i].out).h <= 1000000

\* C15 as the spec states it: the safe_int of the chart extractor and the one
\* of the past-performance extractor return the same result on every input;
\* "12.0" gives 12, and empty, blank or non-numeric text gives an absent value.
C15_FloatTolerantInt ==
  \A i \in Calls("safe_int") :
    /\ hist[i].out.chart = hist[i].out.pp
    /\ hist[i].arg = Some(<<"1", "2", ".", "0">>) => hist[i].out.chart = Some(12)
    /\ hist[i].arg \in {None, Some(<<>>), Some(<<" ">>), Some(<<"a", "b", "c">>)}
         => hist[i].out.chart = None

\* The chart documents none of whose elements is a payoff element.
PayoffTags ==
  {"WinPayoff", "WIN_PAYOFF", "WIN", "PlacePayoff", "PLACE_PAYOFF", "PLACE",
   "ShowPayoff", "SHOW_PAYOFF", "SHOW"}
NoPayoffElements(root) == \A tag \in PayoffTags : DescWithTag(root, tag) = <<>>
NullPayoffs(row) ==
  row.win_payoff = None /\ row.place_payoff = None /\ row.show_payoff = None

\* C16 as the spec states it: a chart entrant without win, place or show
\* payoff elements has null payoffs, never 0, in every entry row
\* emit_rows_chart emits for it and in the row stored after _upsert_staging.
C16_NoZeroDefault ==
  \A i \in 1..Len(hist) :
    (hist[i].kind = "chart" /\ NoPayoffElements(ChartDoc(hist[i].content)))
      => /\ \A k \in 1..Len(hist[i].rows.entry) : NullPayoffs(hist[i].rows.entry[k])
         /\ \A r \in hist[i].post.stg_chart_entry \ hist[i].pre.stg_chart_entry :
              NullPayoffs(r)

\* The key of a chart staging table is satisfied: the destination has every
\* column of it.
KeySatisfied(table, pk_wanted) == SeqToSet(pk_wanted) \subseteq cols_actual[table]
\* What a run wrote into a table, and that the table holds rows after it.
Written(r, table) == r.post[table] \ r.pre[table]
Filled(r, table) == r.post[table] # {}

\* C17 as the spec states it: the chart _upsert_staging writes only columns
\* that are both wanted and in the destination; a missing non-key column is
\* left out without error; and when the key columns of an entity cannot all
\* be satisfied no write is attempted for it (the run does not fail on it and
\* writes none of its rows) while the other entity is still written.
C17_SchemaTolerance ==
  \A i \in 1..Len(hist) :
    With(hist[i], LAMBDA r :
      /\ \A row \in Written(r, "stg_chart_race") :
           DOMAIN row \subseteq SeqToSet(race_wanted) \cap cols_actual.stg_chart_race
      /\ \A row \in Written(r, "stg_chart_entry") :
           DOMAIN row \subseteq SeqToSet(entry_wanted) \cap cols_actual.stg_chart_entry
      /\ (KeySatisfied("stg_chart_race", race_pk_wanted)
          /\ KeySatisfied("stg_chart_entry", entry_pk_wanted)
          /\ r.rows.race # <<>> /\ r.rows.entry # <<>>)
           => (Committed(r) /\ Filled(r, "stg_chart_race")
               /\ Filled(r, "stg_chart_entry"))
      /\ (~KeySatisfied("stg_chart_race", race_pk_wanted)
          /\ KeySatisfied("stg_chart_entry", entry_pk_wanted)
          /\ r.rows.race # <<>> /\ r.rows.entry # <<>>)
           => (Committed(r) /\ Written(r, "stg_chart_race") = {}
               /\ Filled(r, "stg_chart_entry"))
      /\ (KeySatisfied("stg_chart_race", race_pk_wanted)
          /\ ~KeySatisfied("stg_chart_entry", entry_pk_wanted)
          /\ r.rows.race # <<>> /\ r.rows.entry # <<>>)
           => (Committed(r) /\ Filled(r, "stg_chart_race")
               /\ Written(r, "stg_chart_entry") = {}))

\* The race elements of a run's document that get a race row, in document
\* order, and the row an extractor makes of one of them.
RaceElements(r) ==
  IF r.kind = "pp"
  THEN SelectSeq(DocumentOrder(PPDoc(r.content)),
                 LAMBDA p : pp_safe_int(pp_rnum_txt(At(PPDoc(r.content), p))) # None)
  ELSE DocumentOrder(ChartDoc(r.content))
RaceRowOf(r, p, k) ==
  IF r.kind = "pp" THEN pp_race_row(At(PPDoc(r.content), p), <<>>, <<>>)
  ELSE chart_race_row(At(ChartDoc(r.content), p), k, None, None)
\* The fields of a race row that are read from the race element alone.
ElementFields(row) == <<row.surface, row.distance_yards, row.track_condition>>

\* C18 as the spec states it: the race rows emit_rows_chart and _emit_rows_pp
\* return are in the order their race elements occur in the document,
\* whichever of the tags Race and RACE each element has: the k-th row is the
\* row of the k-th race element.
C18_DocumentOrder ==
  \A i \in 1..Len(hist) :
    hist[i].outcome # "emit_rows_chart"
    => /\ Len(hist[i].rows.race) = Len(RaceElements(hist[i]))
       /\ \A k \in 1..Len(hist[i].rows.race) :
            ElementFields(hist[i].rows.race[k])
              = ElementFields(RaceRowOf(hist[i], RaceElements(hist[i])[k], k))

\* The naming conventions: <3-letter track><8-digit date>tch,
\* SIMD<8-digit date><3-letter track>..., and an 8-digit run that starts
\* with 20.
IsLetter(c) == IsUpper(UpperChar(c))
TrackDateTch(st) ==
  /\ Len(st) >= 14
  /\ \A j \in 1..3 : IsLetter(st[j])
  /\ AllDigits(SubSeq(st, 4, 11))
  /\ SubSeq(st, 12, 14) = <<"t", "c", "h">>
SimdDateTrack(st) ==
  /\ Len(st) >= 15
  /\ SubSeq(st, 1, 4) = <<"S", "I", "M", "D">>
  /\ AllDigits(SubSeq(st, 5, 12))
  /\ \A j \in 13..15 : IsLetter(st[j])
GenericDate(name) == \E j \in 1..Len(name) : DateAt(name, j)
Unmatched(name) ==
  ~TrackDateTch(stem(name)) /\ ~SimdDateTrack(stem(name)) /\ ~GenericDate(name)

\* C19 as the spec states it: for a name <3-letter track><8-digit date>tch
\* _defaults_from_filename returns the upper-cased track and the date as
\* YYYY-MM-DD (kee20231014tch.xml: KEE, 2023-10-14), and for a name that
\* matches no convention it returns (None, None).
C19_FilenameDefaults ==
  \A i \in Calls("defaults_from_filename") :
    /\ TrackDateTch(stem(hist[i].arg))
         => hist[i].out.chart = <<Some(upper(SubSeq(hist[i].arg, 1, 3))),
                                  Some(IsoDate(SubSeq(hist[i].arg, 4, 11)))>>
    /\ hist[i].arg = <<"k", "e", "e", "2", "0", "2", "3", "1", "0", "1", "4", "t", "c", "h",
                       ".", "x", "m", "l">>
         => hist[i].out.chart
              = <<Some(KEE), Some(<<"2", "0", "2", "3", "-", "1", "0", "-", "1", "4">>)>>
    /\ Unmatched(hist[i].arg)
         => hist[i].out.chart = <<None, None>> /\ hist[i].out.pp = <<None, None>>

\* Two dicts hold the same key/value pairs.
SamePairs(a, b) == {a[i] : i \in 1..Len(a)} = {b[i] : i \in 1..Len(b)}

\* C20: fingerprint returns the same digest for a mapping whatever the order
\* of its keys: two dicts with the same key/value pairs get the same
\* fingerprint, from each of the three fingerprint functions.
C20_FingerprintDeterminism ==
  \A i, j \in Calls("fingerprint") :
    SamePairs(hist[i].arg, hist[j].arg) => hist[i].out = hist[j].out

\* Two calls on dicts that hold the same three pairs in different orders
\* returned the same digest.
C20_Witness ==
  \E i, j \in Calls("fingerprint") :
    /\ hist[i].arg # hist[j].arg
    /\ Len(hist[i].arg) = 3
    /\ SamePairs(hist[i].arg, hist[j].arg)
    /\ hist[i].out = hist[j].out

\* The Starter elements below the Starters parents of a race, and the chart
\* documents each of whose races has one Starters parent (and no other
\* parent of entrants) whose Starter children have valid program numbers,
\* no two the same.
StartersOf(race) == StarterPaths(race, <<"Starters">>, <<"Starter">>)
OneStartersParent(race) ==
  /\ Len(findall(race, <<"Starters">>)) = 1
  /\ findall(race, <<"STARTERS", "Entries", "ENTRIES", "Results", "RESULTS", "HorseList",
                     "HORSELIST">>) = <<>>
  /\ StartersOf(race) # <<>>
  /\ \A j \in 1..Len(StartersOf(race)) :
       chart_prog(At(race, StartersOf(race)[j]), chart_prog_names1) # None
  /\ \A j, k \in 1..Len(StartersOf(race)) :
       j # k => chart_prog(At(race, StartersOf(race)[j]), chart_prog_names1)
                  # chart_prog(At(race, StartersOf(race)[k]), chart_prog_names1)
DistinctStarters(root) ==
  /\ chart_race_nodes(root) # <<>>
  /\ \A i \in 1..Len(chart_race_nodes(root)) :
       OneStartersParent(At(root, chart_race_nodes(root)[i]))
StarterCount(root) ==
  SumLen([i \in 1..Len(chart_race_nodes(root)) |->
            StartersOf(At(root, chart_race_nodes(root)[i]))])
EntryKey(row) == <<row.track_code, row.race_date, row.race_number, row.program_number>>

\* C21 as it is stated: for a chart document each of whose races has one
\* Starters parent whose Starter children have distinct valid program
\* numbers, emit_rows_chart emits one entry row per Starter element, no two
\* entry rows with the same natural key.
C21_OneRowPerStarter ==
  \A i \in 1..Len(hist) :
    (hist[i].kind = "chart" /\ hist[i].outcome # "emit_rows_chart"
     /\ DistinctStarters(ChartDoc(hist[i].content)))
    => /\ Len(hist[i].rows.entry) = StarterCount(ChartDoc(hist[i].content))
       /\ \A j, k \in 1..Len(hist[i].rows.entry) :
            j # k => EntryKey(hist[i].rows.entry[j]) # EntryKey(hist[i].rows.entry[k])

====
